---- MODULE Spec2Model ----
(***************************************************************************)
(* Pair-arbitrage backtester (tests/strategies/pair_arbitrage_backtest_    *)
(* fixed.py, class FixedPairBacktester): the z-score state machine of      *)
(* generate_signals, the rolling statistics of calculate_spread and the    *)
(* per-trade capital accounting of calculate_returns.                      *)
(*                                                                         *)
(* Numbers.  Prices, hedge ratio, margin and thresholds are exact          *)
(* rationals [n, d] with d > 0.  A z-score is kept as its signed square    *)
(* [num, den]: it stands for sign(num) * sqrt(|num| / den), which orders   *)
(* exactly like the z-score itself and needs no square root; den = 0 is    *)
(* NaN.  Series are sequences; Python position k is element k + 1.         *)
(***************************************************************************)
EXTENDS Integers, Sequences, FiniteSets, TLC

VARIABLES
    entry_threshold,      \* self.entry_threshold
    exit_threshold,       \* self.exit_threshold
    lookback_window,      \* self.lookback_window
    hedge_ratio,          \* self.hedge_ratio
    margin_requirement,   \* self.margin_requirement
    df1, df2,             \* close prices of the two instruments, one per bar
    z_score,              \* the z-score series handed to generate_signals
    pc,                   \* position of the run in the backtest
    i,                    \* cursor of the bar loop of generate_signals
    position,             \* local variable position of generate_signals
    signals,              \* the signal series built by generate_signals
    trades,               \* the trade ledger (a list of dicts)
    trades_with_metrics,  \* the copy of the ledger calculate_returns fills in
    idx,                  \* cursor of the iterrows loop of calculate_returns
    strategy_returns,     \* the daily strategy returns of calculate_returns
    stats,                \* the statistics calculate_returns computes and prints
    report,               \* the figures save_results writes to the report file
    results,              \* the dict run_backtest returns
    backtester,           \* the fields of the SupertrendBacktester object
    df_len,               \* len(df): the number of candles of its backtest
    bar,                  \* cursor of the candle loop of execute_backtest
    current_row,          \* the candle of that iteration, or the arguments of a direct call
    metrics,              \* the dict calculate_performance_metrics returns
    instruments_df,       \* the tickers of the instruments file, in file order
    api,                  \* what the candle service answers for each ticker
    row_i,                \* cursor of the loop of fetch_all_historical_data
    historical_data,      \* its dict ticker -> history, in insertion order
    metadata,             \* its metadata list
    successful, failed,   \* its two counters
    price_matrix,         \* self.price_matrix of the fetcher and of the screeners
    correlations,         \* what calculate_basic_correlations returns
    files,                \* the files save_results of the fetcher writes
    min_correlation,      \* self.min_correlation of a screener
    min_common_days,      \* self.min_common_days of a screener
    scan,                 \* column pairs the two loops of a screener have visited
    pairs,                \* the local list pairs of a screener
    pair_k,               \* cursor of the loop over pairs of find_all_pairs
    cointegrated_pairs,   \* the local list cointegrated_pairs of find_all_pairs
    tested,               \* the locals of its last iteration: p-values, hedge ratio
    pairs_df,             \* the frame save_results of the finder writes to the pairs file
    summary,              \* what the finder prints: stage counts and print_summary
    spread,               \* the spread calculate_hurst_exponent is given
    hurst                 \* its locals at the return: the lags and the result

vars == <<entry_threshold, exit_threshold, lookback_window, hedge_ratio,
          margin_requirement, df1, df2, z_score, pc, i, position, signals,
          trades, trades_with_metrics, idx, strategy_returns, stats, report,
          results, backtester, df_len, bar, current_row, metrics,
          instruments_df, api, row_i, historical_data, metadata, successful,
          failed, price_matrix, correlations, files, min_correlation,
          min_common_days, scan, pairs, pair_k, cointegrated_pairs, tested,
          pairs_df, summary, spread, hurst>>

----------------------------------------------------------------------------
(* Bounds of the model *)

MaxBars == 5            \* longest z-score series handed to generate_signals
RBars == 5              \* bars of the price histories of a full backtest
CBars == 5              \* bars of the price histories the z-score is computed from
CausalWindow == 3       \* lookback_window of those runs
\* min_periods of the rolling statistics (30 of a 60-bar window), scaled to
\* the 3-bar window
MinPeriods == 2
LookbackWindow == 2     \* lookback_window of the runs (60 in main)

----------------------------------------------------------------------------
(* Exact arithmetic *)

Sgn(x) == IF x > 0 THEN 1 ELSE IF x < 0 THEN -1 ELSE 0
Abs(x) == IF x < 0 THEN -x ELSE x


RECURSIVE Gcd(_, _)
Gcd(a, b) == IF b = 0 THEN a ELSE Gcd(b, a % b)

\* the rational n / d (d > 0) in lowest terms
Rat(n, d) ==
    LET g == Gcd(Abs(n), d) IN [n |-> n \div g, d |-> d \div g]
RNeg(a) == Rat(-a.n, a.d)
RAdd(a, b) == Rat(a.n * b.d + b.n * a.d, a.d * b.d)
RSub(a, b) == RAdd(a, RNeg(b))
RMul(a, b) == Rat(a.n * b.n, a.d * b.d)
RLt(a, b) == a.n * b.d < b.n * a.d
REq(a, b) == a.n * b.d = b.n * a.d
RInt(k) == Rat(k, 1)
\* a / b for b # 0, the denominator kept positive
RDiv(a, b) == Rat(Sgn(b.n) * a.n * b.d, a.d * Abs(b.n))
RPos(a) == a.n > 0
RZero(a) == a.n = 0

(* z-scores as signed squares *)
NaN == [num |-> 0, den |-> 0]
IsNa(z) == z.den = 0
SignedSquare(c) == [num |-> Sgn(c.n) * c.n * c.n, den |-> c.d * c.d]
ZCmpLt(a, b) == a.num * b.den < b.num * a.den
\* z < c and z > c for a z-score z and a rational c; false on NaN as in IEEE
ZLt(z, c) == ~IsNa(z) /\ ZCmpLt(z, SignedSquare(c))
ZGt(z, c) == ~IsNa(z) /\ ZCmpLt(SignedSquare(c), z)
ZEq(a, b) == IF IsNa(a) \/ IsNa(b) THEN IsNa(a) /\ IsNa(b)
             ELSE a.num * b.den = b.num * a.den

\* the z-score k/2
HalfSigma(k) == SignedSquare(Rat(k, 2))

----------------------------------------------------------------------------
(* Series and dicts *)

\* s.iloc[k] for k >= 0, s.iloc[-1] for k = -1
Iloc(s, k) == IF k < 0 THEN s[Len(s) + 1 + k] ELSE s[k + 1]

\* z_score.index[k]: the date (day number) of bar k; trading days, weekends skipped
Index(k) == k + 2 * (k \div 5)
\* slip: the date of the bar before the last one
IndexLast_OffByOne(s) == Index(Len(s) - 2)
IndexLast(s) == Index(Len(s) - 1)

\* d[key] = value on a Python dict
SetKey(d, key, value) ==
    [x \in (DOMAIN d) \cup {key} |-> IF x = key THEN value ELSE d[x]]

\* trades[-1][key] = value
SetLast(ts, key, value) ==
    [ts EXCEPT ![Len(ts)] = SetKey(ts[Len(ts)], key, value)]

SetIloc(s, k, v) == [s EXCEPT ![k + 1] = v]

----------------------------------------------------------------------------
(* generate_signals *)

FLAT == 0
LONG_SPREAD == 1
SHORT_SPREAD == -1

\* slip: entry on z <= -entry_threshold
IsLongEntry_NonStrict(z) == ~IsNa(z) /\ ~ZGt(z, RNeg(entry_threshold))
IsLongEntry(z) == ZLt(z, RNeg(entry_threshold))
IsShortEntry(z) == ZGt(z, entry_threshold)
\* slip: the sign of the exit threshold is lost
IsLongExit_SignSlip(z) == ZGt(z, exit_threshold)
IsLongExit(z) == ZGt(z, RNeg(exit_threshold))
IsShortExit(z) == ZLt(z, exit_threshold)

\* slip: the SELL branch copies the action of the BUY branch
NewTrade_CopiedAction(date, action, z, pos) ==
    [entry_date |-> date, action |-> "BUY_SPREAD", entry_z |-> z, position |-> pos]
NewTrade(date, action, z, pos) ==
    [entry_date |-> date, action |-> action, entry_z |-> z, position |-> pos]

\* slip: the duration is counted from the exit back to the entry
CloseLast_Backwards(ts, date, z) ==
    LET t1 == SetLast(ts, "exit_date", date)
        t2 == SetLast(t1, "exit_z", z)
    IN  SetLast(t2, "duration_days",
                t2[Len(t2)]["entry_date"] - t2[Len(t2)]["exit_date"])
\* the three assignments that finalize the last trade
CloseLast(ts, date, z) ==
    LET t1 == SetLast(ts, "exit_date", date)
        t2 == SetLast(t1, "exit_z", z)
    IN  SetLast(t2, "duration_days",
                t2[Len(t2)]["exit_date"] - t2[Len(t2)]["entry_date"])

InLoop == pc = "loop" /\ i < Len(z_score)
current_z == Iloc(z_score, i)

Config == <<entry_threshold, exit_threshold, lookback_window, hedge_ratio,
            margin_requirement>>

\* what run_backtest produces after the per-trade loop of calculate_returns
Summary == <<strategy_returns, stats, report, results>>

\* the state of HistoricalDataFetcher
FeedVars == <<instruments_df, api, row_i, historical_data, metadata, successful,
              failed, price_matrix, correlations, files>>

\* the state of CorrelationCalculator and CointegratedPairsFinder
RunTail == <<pairs_df, summary>>
SpreadVars == <<spread, hurst>>
ScreenVars == <<min_correlation, min_common_days, scan, pairs, pair_k,
                cointegrated_pairs, tested, RunTail, SpreadVars>>

\* the state of the other programs of the repository
OutsidePair == <<backtester, df_len, bar, current_row, metrics, FeedVars,
                 ScreenVars>>

Frame ==
    UNCHANGED <<Config, df1, df2, z_score, trades_with_metrics, idx, Summary,
                OutsidePair>>

\* line 113: a bar without a z-score is skipped
SkipNaN ==
    /\ InLoop /\ IsNa(current_z)
    /\ i' = i + 1
    /\ UNCHANGED <<pc, position, signals, trades>>
    /\ Frame

EnterLong ==
    /\ InLoop /\ ~IsNa(current_z) /\ position = 0
    /\ IsLongEntry(current_z)
    /\ signals' = SetIloc(signals, i, 1)
    /\ position' = 1
    /\ trades' = Append(trades, NewTrade(Index(i), "BUY_SPREAD", current_z, 1))
    /\ i' = i + 1
    /\ UNCHANGED pc
    /\ Frame

EnterShort ==
    /\ InLoop /\ ~IsNa(current_z) /\ position = 0
    /\ ~IsLongEntry(current_z) /\ IsShortEntry(current_z)
    /\ signals' = SetIloc(signals, i, -1)
    /\ position' = -1
    /\ trades' = Append(trades, NewTrade(Index(i), "SELL_SPREAD", current_z, -1))
    /\ i' = i + 1
    /\ UNCHANGED pc
    /\ Frame

StayFlat ==
    /\ InLoop /\ ~IsNa(current_z) /\ position = 0
    /\ ~IsLongEntry(current_z) /\ ~IsShortEntry(current_z)
    /\ i' = i + 1
    /\ UNCHANGED <<pc, position, signals, trades>>
    /\ Frame

ExitLong ==
    /\ InLoop /\ ~IsNa(current_z) /\ position = 1
    /\ IsLongExit(current_z)
    /\ signals' = SetIloc(signals, i, 0)
    /\ position' = 0
    /\ trades' = CloseLast(trades, Index(i), current_z)
    /\ i' = i + 1
    /\ UNCHANGED pc
    /\ Frame

ExitShort ==
    /\ InLoop /\ ~IsNa(current_z) /\ position = -1
    /\ IsShortExit(current_z)
    /\ signals' = SetIloc(signals, i, 0)
    /\ position' = 0
    /\ trades' = CloseLast(trades, Index(i), current_z)
    /\ i' = i + 1
    /\ UNCHANGED pc
    /\ Frame

HoldPosition ==
    /\ InLoop /\ ~IsNa(current_z)
    /\ \/ position = 1 /\ ~IsLongExit(current_z)
       \/ position = -1 /\ ~IsShortExit(current_z)
    /\ i' = i + 1
    /\ UNCHANGED <<pc, position, signals, trades>>
    /\ Frame

\* the range of the for loop is exhausted
LoopEnd ==
    /\ pc = "loop" /\ i >= Len(z_score)
    /\ pc' = "final"
    /\ UNCHANGED <<i, position, signals, trades>>
    /\ Frame

\* slip: the end-of-data step does not look at the position
ForcedExitCond_AnyPosition == trades # <<>>
\* slip: the truth test on the ledger is inverted
ForcedExitCond_Inverted == position # 0 /\ trades = <<>>
ForcedExitCond == position # 0 /\ trades # <<>>

\* lines 154-158: a position left open at the end of the data
ForcedExit ==
    /\ pc = "final" /\ ForcedExitCond
    /\ trades' = CloseLast(trades, IndexLast(z_score), Iloc(z_score, -1))
    /\ pc' = "done"
    /\ UNCHANGED <<i, position, signals>>
    /\ Frame

NoForcedExit ==
    /\ pc = "final" /\ ~ForcedExitCond
    /\ pc' = "done"
    /\ UNCHANGED <<i, position, signals, trades>>
    /\ Frame

----------------------------------------------------------------------------
(* Runs of generate_signals on an arbitrary z-score series *)

ZVals == {NaN} \cup {HalfSigma(k) : k \in {-5, -4, -1, 0, 1, 4, 5}}

SeriesUpTo(S, n) == UNION {[1..m -> S] : m \in 0..n}

\* no SupertrendBacktester has been constructed
NoSupertrend ==
    /\ backtester = <<>>
    /\ df_len = 0
    /\ bar = 0
    /\ current_row = <<>>
    /\ metrics = <<>>

\* no HistoricalDataFetcher has been constructed
NoFeed ==
    /\ instruments_df = <<>>
    /\ api = <<>>
    /\ row_i = 0
    /\ historical_data = <<>>
    /\ metadata = <<>>
    /\ successful = 0
    /\ failed = 0
    /\ correlations = <<>>
    /\ files = <<>>

\* no screener has been constructed
NoScreen ==
    /\ min_correlation = <<>>
    /\ min_common_days = 0
    /\ scan = 0
    /\ pairs = <<>>
    /\ pair_k = 0
    /\ cointegrated_pairs = <<>>
    /\ tested = <<>>
    /\ pairs_df = <<>>
    /\ summary = <<>>
    /\ spread = <<>>
    /\ hurst = <<>>

\* no price history has been fetched or screened
NoDataFeed ==
    /\ NoFeed
    /\ price_matrix = <<>>
    /\ NoScreen

\* nothing is computed, written or returned before calculate_returns ends
NoSummary ==
    /\ strategy_returns = <<>>
    /\ stats = <<>>
    /\ report = <<>>
    /\ results = <<>>
    /\ NoSupertrend
    /\ NoDataFeed

\* lines 106-108 and the loop header of line 110
StartSignals(z) ==
    /\ z_score = z
    /\ signals = [k \in 1..Len(z) |-> 0]
    /\ position = 0
    /\ trades = <<>>
    /\ i = lookback_window
    /\ pc = "loop"

Init ==
    /\ entry_threshold = Rat(2, 1)
    /\ exit_threshold = Rat(1, 2)
    /\ lookback_window = LookbackWindow
    /\ hedge_ratio = Rat(6, 5)
    /\ margin_requirement = Rat(13, 10)
    /\ df1 = <<>> /\ df2 = <<>>
    /\ trades_with_metrics = <<>>
    /\ idx = 0
    /\ NoSummary
    /\ \E z \in SeriesUpTo(ZVals, MaxBars) : StartSignals(z)

Next ==
    \/ SkipNaN
    \/ EnterLong
    \/ EnterShort
    \/ StayFlat
    \/ ExitLong
    \/ ExitShort
    \/ HoldPosition
    \/ LoopEnd
    \/ ForcedExit
    \/ NoForcedExit

Spec == Init /\ [][Next]_vars

----------------------------------------------------------------------------
(* calculate_capital_required and the per-trade loop of calculate_returns *)

\* df.loc[date, 'close']: the close of the bar labelled with the date
Loc(df, date) ==
    RInt(df[(CHOOSE k \in 0..(Len(df) - 1) : Index(k) = date) + 1])

\* slip: the short leg of SELL_SPREAD carries no margin
CapitalWith_NoMarginOnSell(m, h, action, price1, price2) ==
    IF action = "BUY_SPREAD"
    THEN RAdd(price1, RMul(RMul(m, h), price2))
    ELSE RAdd(price1, RMul(h, price2))
\* lines 176-181 for margin requirement m and hedge ratio h
CapitalWith(m, h, action, price1, price2) ==
    IF action = "BUY_SPREAD"
    THEN RAdd(price1, RMul(RMul(m, h), price2))
    ELSE RAdd(RMul(m, price1), RMul(h, price2))

\* slip: margin and hedge ratio on the short leg of both sides
CapitalRequired_ShortLegFormula(action, price1, price2) ==
    IF action = "BUY_SPREAD"
    THEN RAdd(price1, RMul(RMul(margin_requirement, hedge_ratio), price2))
    ELSE RAdd(price2, RMul(RMul(margin_requirement, hedge_ratio), price1))
CapitalRequired(action, price1, price2) ==
    CapitalWith(margin_requirement, hedge_ratio, action, price1, price2)

\* slip: the hedged leg of SELL_SPREAD is added instead of subtracted
Pnl_SignSlip(action, price1_entry, price2_entry, price1_exit, price2_exit) ==
    IF action = "BUY_SPREAD"
    THEN RSub(RSub(price1_exit, price1_entry),
              RMul(hedge_ratio, RSub(price2_exit, price2_entry)))
    ELSE RAdd(RSub(price1_entry, price1_exit),
              RMul(hedge_ratio, RSub(price2_entry, price2_exit)))
\* lines 206-211
Pnl(action, price1_entry, price2_entry, price1_exit, price2_exit) ==
    IF action = "BUY_SPREAD"
    THEN RSub(RSub(price1_exit, price1_entry),
              RMul(hedge_ratio, RSub(price2_exit, price2_entry)))
    ELSE RSub(RSub(price1_entry, price1_exit),
              RMul(hedge_ratio, RSub(price2_entry, price2_exit)))

\* slip: the guard of line 219 let through a zero capital as 0 only
ReturnPct_Unsigned(pnl, capital_required) ==
    IF ~RZero(capital_required)
    THEN RMul(RDiv(pnl, capital_required), RInt(100))
    ELSE RInt(0)
\* line 219
ReturnPct(pnl, capital_required) ==
    IF RPos(capital_required)
    THEN RMul(RDiv(pnl, capital_required), RInt(100))
    ELSE RInt(0)

\* line 232, kept symbolic: ((1 + return_pct/100) ** (365/duration_days) - 1) * 100
AnnualizedReturn(return_pct, duration_days) ==
    [base |-> RAdd(RInt(1), RDiv(return_pct, RInt(100))),
     exponent |-> Rat(365, duration_days)]

SetKeys(d, kv) ==
    [x \in (DOMAIN d) \cup (DOMAIN kv) |-> IF x \in DOMAIN kv THEN kv[x] ELSE d[x]]

\* the body of the iterrows loop for one trade, lines 196-233
WithMetrics(trade) ==
    LET price1_entry == Loc(df1, trade["entry_date"])
        price2_entry == Loc(df2, trade["entry_date"])
        price1_exit == Loc(df1, trade["exit_date"])
        price2_exit == Loc(df2, trade["exit_date"])
        pnl == Pnl(trade["action"], price1_entry, price2_entry,
                   price1_exit, price2_exit)
        capital_required ==
            CapitalRequired(trade["action"], price1_entry, price2_entry)
        return_pct == ReturnPct(pnl, capital_required)
        filled == SetKeys(trade,
                    [price1_entry |-> price1_entry, price2_entry |-> price2_entry,
                     price1_exit |-> price1_exit, price2_exit |-> price2_exit,
                     pnl |-> pnl, capital_required |-> capital_required,
                     return_pct |-> return_pct])
    IN  IF trade["duration_days"] > 0
        THEN SetKey(filled, "annualized_return",
                    AnnualizedReturn(return_pct, trade["duration_days"]))
        ELSE filled

SignalState == <<z_score, i, position, signals, trades>>

\* run_backtest lines 450-452: without trades the backtest returns None
NoTrades ==
    /\ pc = "done" /\ trades = <<>>
    /\ pc' = "no_trades"
    /\ UNCHANGED <<Config, df1, df2, SignalState, trades_with_metrics, idx, Summary,
                   OutsidePair>>

\* run_backtest line 455 and calculate_returns lines 186-195
StartReturns ==
    /\ pc = "done" /\ trades # <<>>
    /\ trades_with_metrics' = trades
    /\ idx' = 0
    /\ pc' = "returns"
    /\ UNCHANGED <<Config, df1, df2, SignalState, Summary,
                   OutsidePair>>

TradeMetrics ==
    /\ pc = "returns" /\ idx < Len(trades_with_metrics)
    /\ trades_with_metrics' =
          [trades_with_metrics EXCEPT ![idx + 1] = WithMetrics(@)]
    /\ idx' = idx + 1
    /\ UNCHANGED <<Config, df1, df2, SignalState, pc, Summary,
                   OutsidePair>>

MetricsEnd ==
    /\ pc = "returns" /\ idx >= Len(trades_with_metrics)
    /\ pc' = "metrics_done"
    /\ UNCHANGED <<Config, df1, df2, SignalState, trades_with_metrics, idx, Summary,
                   OutsidePair>>

----------------------------------------------------------------------------
(* Floating-point results: a finite value is a rational; d = 0 marks a     *)
(* value that is not finite, n = 1 for inf, n = -1 for -inf, n = 0 for NaN *)

FloatNaN == [n |-> 0, d |-> 0]
IsFinite(x) == x.d # 0
IsNaN(x) == x.d = 0 /\ x.n = 0
IsInf(x) == x.d = 0 /\ x.n # 0

FloatAdd(a, b) ==
    IF IsFinite(a) /\ IsFinite(b) THEN RAdd(a, b)
    ELSE IF IsFinite(b) THEN a
    ELSE IF IsFinite(a) THEN b
    ELSE IF a.n = b.n THEN a ELSE FloatNaN
FloatNeg(a) == IF IsFinite(a) THEN RNeg(a) ELSE [n |-> -a.n, d |-> 0]
FloatSub(a, b) == FloatAdd(a, FloatNeg(b))
FloatMul(a, b) ==
    IF IsFinite(a) /\ IsFinite(b) THEN RMul(a, b)
    ELSE [n |-> Sgn(a.n) * Sgn(b.n), d |-> 0]
\* a / b on numpy floats: a zero divisor gives inf, -inf or NaN, never an error
FloatDiv(a, b) ==
    IF IsFinite(a) /\ IsFinite(b)
    THEN IF RZero(b) THEN [n |-> Sgn(a.n), d |-> 0] ELSE RDiv(a, b)
    ELSE IF IsFinite(b) THEN [n |-> IF RZero(b) THEN a.n ELSE a.n * Sgn(b.n), d |-> 0]
    ELSE IF IsFinite(a) /\ IsInf(b) THEN RInt(0)
    ELSE FloatNaN
\* a < b; false when either side is NaN
FloatLt(a, b) ==
    IF IsFinite(a) /\ IsFinite(b) THEN RLt(a, b)
    ELSE IF IsNaN(a) \/ IsNaN(b) THEN FALSE
    ELSE IF IsFinite(a) THEN b.n = 1
    ELSE IF IsFinite(b) THEN a.n = -1
    ELSE a.n < b.n
\* the same float
FloatSame(a, b) == IF IsFinite(a) /\ IsFinite(b) THEN REq(a, b) ELSE a = b

----------------------------------------------------------------------------
(* The statistics of calculate_returns, lines 235-291 *)

\* df['close'].pct_change() at bar k
PctChange(df, k) ==
    IF k = 0 THEN FloatNaN ELSE FloatDiv(RInt(df[k + 1] - df[k]), RInt(df[k]))

\* line 238 at bar k
SpreadReturn(k) == FloatSub(PctChange(df1, k), FloatMul(hedge_ratio, PctChange(df2, k)))

\* the local position of the replay loop of lines 243-254: HeldAt is its value
\* when bar k is credited (after line 245), AfterBar its value when the
\* iteration of bar k ends (after line 254); AfterBar(sig, -1) is line 241
RECURSIVE HeldAt(_, _)
AfterBar(sig, k) ==
    IF k < 0 THEN 0
    ELSE IF sig[k + 1] = 0 /\ HeldAt(sig, k) # 0 THEN 0 ELSE HeldAt(sig, k)
HeldAt(sig, k) ==
    IF sig[k + 1] # 0 /\ AfterBar(sig, k - 1) = 0
    THEN sig[k + 1] ELSE AfterBar(sig, k - 1)

\* lines 240-254
StrategyReturns(sig) ==
    [j \in 1..Len(sig) |->
        IF HeldAt(sig, j - 1) = 0 THEN RInt(0)
        ELSE IF HeldAt(sig, j - 1) = 1 THEN SpreadReturn(j - 1)
        ELSE FloatNeg(SpreadReturn(j - 1))]

\* (1 + s).cumprod(): a NaN element is skipped by the product and stays NaN
RECURSIVE CumProdAt(_, _)
CumProdAt(s, k) ==
    IF k = 0 THEN RInt(1)
    ELSE IF IsNaN(s[k]) THEN CumProdAt(s, k - 1)
    ELSE FloatMul(CumProdAt(s, k - 1), FloatAdd(RInt(1), s[k]))
CumProd(s) == [k \in 1..Len(s) |-> IF IsNaN(s[k]) THEN FloatNaN ELSE CumProdAt(s, k)]

\* max and min of the elements of a series that are not NaN; NaN if there are none
RECURSIVE MaxUpTo(_, _)
MaxUpTo(s, k) ==
    IF k = 0 THEN FloatNaN
    ELSE LET m == MaxUpTo(s, k - 1)
         IN  IF IsNaN(s[k]) THEN m
             ELSE IF IsNaN(m) \/ FloatLt(m, s[k]) THEN s[k] ELSE m
RECURSIVE MinUpTo(_, _)
MinUpTo(s, k) ==
    IF k = 0 THEN FloatNaN
    ELSE LET m == MinUpTo(s, k - 1)
         IN  IF IsNaN(s[k]) THEN m
             ELSE IF IsNaN(m) \/ FloatLt(s[k], m) THEN s[k] ELSE m

\* slip: the running minimum is taken for the running maximum
CumMax_RunningMin(s) == [k \in 1..Len(s) |-> IF IsNaN(s[k]) THEN FloatNaN ELSE MinUpTo(s, k)]
\* s.cummax()
CumMax(s) == [k \in 1..Len(s) |-> IF IsNaN(s[k]) THEN FloatNaN ELSE MaxUpTo(s, k)]

\* lines 269-271 and supertrend_backtest_final.py lines 500-501
Drawdown(cumulative) ==
    LET running_max == CumMax(cumulative)
    IN  [k \in 1..Len(cumulative) |->
            FloatDiv(FloatSub(cumulative[k], running_max[k]), running_max[k])]

\* drawdown.min() * 100
MaxDrawdown(cumulative) ==
    FloatMul(MinUpTo(Drawdown(cumulative), Len(cumulative)), RInt(100))

RECURSIVE SeriesSum(_, _)
SeriesSum(s, k) == IF k = 0 THEN RInt(0) ELSE FloatAdd(SeriesSum(s, k - 1), s[k])

\* trades[key].sum()
ColumnSum(ts, key) == SeriesSum([k \in 1..Len(ts) |-> ts[k][key]], Len(ts))

\* s.mean()
Mean(s) == FloatDiv(SeriesSum(s, Len(s)), RInt(Len(s)))

\* s.std() squared: the sample variance (ddof = 1), NaN for fewer than 2 values
Variance(s) ==
    IF Len(s) < 2 THEN FloatNaN
    ELSE LET dev == [k \in 1..Len(s) |-> FloatSub(s[k], Mean(s))]
         IN  FloatDiv(SeriesSum([k \in 1..Len(s) |-> FloatMul(dev[k], dev[k])], Len(s)),
                      RInt(Len(s) - 1))

\* lines 263-266; the ratio (mean / std) * sqrt(252) is kept as its mean and
\* the square of its std
SharpeRatio(s) ==
    IF Len(s) > 0 /\ FloatLt(RInt(0), Variance(s))
    THEN [mean |-> Mean(s), variance |-> Variance(s)]
    ELSE RInt(0)

\* (trades['pnl'] > 0).sum() / len(trades) * 100
WinRate(ts) ==
    Rat(100 * Cardinality({k \in 1..Len(ts) : FloatLt(RInt(0), ts[k]["pnl"])}), Len(ts))

\* line 284
GuardedRoi(total_pnl, total_capital) ==
    IF FloatLt(RInt(0), total_capital)
    THEN FloatMul(FloatDiv(total_pnl, total_capital), RInt(100))
    ELSE RInt(0)

\* lines 408 and 475
Roi(ts) ==
    FloatMul(FloatDiv(ColumnSum(ts, "pnl"), ColumnSum(ts, "capital_required")),
             RInt(100))

\* line 260 and line 476
TotalReturn(cumulative_returns) ==
    IF Len(cumulative_returns) > 0
    THEN FloatMul(Iloc(cumulative_returns, -1), RInt(100)) ELSE RInt(0)

\* calculate_returns lines 235-293
ReturnStatistics ==
    /\ pc = "metrics_done"
    /\ LET sr == StrategyReturns(signals)
           cumulative == CumProd(sr)
           cumulative_returns ==
               [k \in 1..Len(sr) |-> FloatSub(cumulative[k], RInt(1))]
           series == [cumulative_returns |-> cumulative_returns,
                      total_return |-> TotalReturn(cumulative_returns),
                      sharpe_ratio |-> SharpeRatio(sr),
                      cumulative |-> cumulative,
                      running_max |-> CumMax(cumulative),
                      drawdown |-> Drawdown(cumulative),
                      max_drawdown |-> MaxDrawdown(cumulative)]
       IN  /\ strategy_returns' = sr
           /\ stats' =
                IF Len(trades_with_metrics) > 0
                THEN SetKeys(series,
                       [win_rate |-> WinRate(trades_with_metrics),
                        avg_return |->
                            Mean([k \in 1..Len(trades_with_metrics) |->
                                     trades_with_metrics[k]["return_pct"]]),
                        total_capital |->
                            ColumnSum(trades_with_metrics, "capital_required"),
                        total_pnl |-> ColumnSum(trades_with_metrics, "pnl"),
                        roi |-> GuardedRoi(ColumnSum(trades_with_metrics, "pnl"),
                                   ColumnSum(trades_with_metrics, "capital_required"))])
                ELSE series
    /\ pc' = "returned"
    /\ UNCHANGED <<Config, df1, df2, SignalState, trades_with_metrics, idx,
                   report, results, OutsidePair>>

\* save_results lines 380-429, called at run_backtest line 464 (plot_results
\* of line 460 draws the figures and changes nothing)
SaveResults ==
    /\ pc = "returned"
    /\ report' =
         IF trades_with_metrics = <<>> THEN report
         ELSE [total_trades |-> Len(trades_with_metrics),
               win_rate |-> WinRate(trades_with_metrics),
               avg_return |->
                   Mean([k \in 1..Len(trades_with_metrics) |->
                            trades_with_metrics[k]["return_pct"]]),
               roi |-> Roi(trades_with_metrics)]
    /\ pc' = "saved"
    /\ UNCHANGED <<Config, df1, df2, SignalState, trades_with_metrics, idx,
                   strategy_returns, stats, results, OutsidePair>>

\* run_backtest lines 471-481
BacktestResults ==
    /\ pc = "saved"
    /\ results' =
         [total_trades |-> Len(trades_with_metrics),
          win_rate |-> WinRate(trades_with_metrics),
          avg_return |->
              Mean([k \in 1..Len(trades_with_metrics) |->
                       trades_with_metrics[k]["return_pct"]]),
          roi |-> Roi(trades_with_metrics),
          total_return |-> TotalReturn(stats["cumulative_returns"]),
          trades |-> trades_with_metrics,
          cumulative_returns |-> stats["cumulative_returns"]]
    /\ pc' = "finished"
    /\ UNCHANGED <<Config, df1, df2, SignalState, trades_with_metrics, idx,
                   strategy_returns, stats, report, OutsidePair>>

(* Full backtests: price histories, a z-score series, hedge ratio and margin *)

Prices == {1, 2}
HedgeRatios == {Rat(1, 2), Rat(6, 5)}
\* the regression slope of a negatively correlated pair is negative
AnyHedgeRatios == HedgeRatios \cup {Rat(-1, 1)}
Margins == {Rat(1, 1), Rat(13, 10)}
ZTrade == {NaN} \cup {HalfSigma(k) : k \in {-5, 0, 5}}

\* series of length n over S whose bars before the lookback window hold pad
PaddedSeries(S, n, pad) ==
    {s \in [1..n -> S \cup {pad}] :
        \A k \in 1..n : k <= LookbackWindow => s[k] = pad}

\* calculate_returns reads the ledger, the signals and the prices only, so the
\* z-score series of these runs is drawn independently of the prices
InitBacktest(ratios) ==
    /\ entry_threshold = Rat(2, 1)
    /\ exit_threshold = Rat(1, 2)
    /\ lookback_window = LookbackWindow
    /\ hedge_ratio \in ratios
    /\ margin_requirement \in Margins
    /\ df1 \in [1..RBars -> Prices]
    /\ df2 \in [1..RBars -> Prices]
    /\ \A k \in 1..RBars : k <= LookbackWindow => (df1[k] = 1 /\ df2[k] = 1)
    /\ trades_with_metrics = <<>>
    /\ idx = 0
    /\ NoSummary
    /\ \E z \in PaddedSeries(ZTrade, RBars, NaN) : StartSignals(z)

InitReturns == InitBacktest(HedgeRatios)
InitAnyHedge == InitBacktest(AnyHedgeRatios)

NextReturns ==
    \/ SkipNaN
    \/ EnterLong
    \/ EnterShort
    \/ StayFlat
    \/ ExitLong
    \/ ExitShort
    \/ HoldPosition
    \/ LoopEnd
    \/ ForcedExit
    \/ NoForcedExit
    \/ NoTrades
    \/ StartReturns
    \/ TradeMetrics
    \/ MetricsEnd
    \/ ReturnStatistics
    \/ SaveResults
    \/ BacktestResults

SpecReturns == InitReturns /\ [][NextReturns]_vars
SpecAnyHedge == InitAnyHedge /\ [][NextReturns]_vars

----------------------------------------------------------------------------
(* calculate_spread: spread, rolling mean and std, z-score *)

\* price1 - hedge_ratio * price2 at bar t, times the denominator of the hedge
\* ratio (a positive factor on the whole series, which the z-score cancels)
ScaledSpread(d1, d2, t) == hedge_ratio.d * d1[t + 1] - hedge_ratio.n * d2[t + 1]

\* slip: rolling(..., center=True), the window reaches past bar t
RollingWindow_Centered(len, t) ==
    {k \in 0..(len - 1) : k >= t - lookback_window + 2 /\ k <= t + 1}
\* the bars of rolling(window=lookback_window) at bar t: the trailing window
RollingWindow(len, t) ==
    {k \in 0..(len - 1) : k >= t - lookback_window + 1 /\ k <= t}

RECURSIVE SumOver(_, _)
SumOver(S, f) ==
    IF S = {} THEN 0
    ELSE LET k == CHOOSE x \in S : TRUE IN f[k] + SumOver(S \ {k}, f)

\* (spread - spread_mean) / spread_std at bar t, lines 91-98.  Over the n
\* window values x with sum S and sum of squares Q, and s the value at t:
\*   mean = S/n,  std^2 = (n*Q - S^2) / (n*(n-1))   (sample std, ddof = 1)
\*   z^2 = (n*s - S)^2 * (n-1) / (n * (n*Q - S^2)),  sign(z) = sign(n*s - S)
\* NaN with fewer than min_periods values or std = 0 (0/0).
ZScoreAt(d1, d2, t) ==
    LET W == RollingWindow(Len(d1), t)
        n == Cardinality(W)
        x == [k \in W |-> ScaledSpread(d1, d2, k)]
        S == SumOver(W, x)
        Q == SumOver(W, [k \in W |-> x[k] * x[k]])
        D == n * Q - S * S
        dev == n * ScaledSpread(d1, d2, t) - S
    IN  IF n < MinPeriods \/ D = 0 THEN NaN
        ELSE [num |-> Sgn(dev) * dev * dev * (n - 1), den |-> n * D]

ZSeries(d1, d2) == [k \in 1..Len(d1) |-> ZScoreAt(d1, d2, k - 1)]

\* run_backtest lines 445 and 448
CalculateSpread ==
    /\ pc = "spread"
    /\ z_score' = ZSeries(df1, df2)
    /\ signals' = [k \in 1..Len(df1) |-> 0]
    /\ position' = 0
    /\ trades' = <<>>
    /\ i' = lookback_window
    /\ pc' = "loop"
    /\ UNCHANGED <<Config, df1, df2, trades_with_metrics, idx, Summary,
                   OutsidePair>>

\* one iteration of the bar loop as a function of position and z, lines 113-151
StepPosition(pos, z) ==
    IF IsNa(z) THEN pos
    ELSE IF pos = 0
         THEN IF IsLongEntry(z) THEN 1 ELSE IF IsShortEntry(z) THEN -1 ELSE 0
    ELSE IF pos = 1
         THEN IF IsLongExit(z) THEN 0 ELSE 1
    ELSE IF IsShortExit(z) THEN 0 ELSE -1

\* position after the loop has processed bars lookback_window .. t of zs
RECURSIVE PositionAfter(_, _)
PositionAfter(zs, t) ==
    IF t < lookback_window THEN 0
    ELSE StepPosition(PositionAfter(zs, t - 1), zs[t + 1])

(* Backtests from price histories *)

\* with a window of n bars |z| <= (n - 1) / sqrt(n), so the thresholds of
\* these runs sit below that of a 3-bar window
InitCausal ==
    /\ entry_threshold = Rat(1, 1)
    /\ exit_threshold = Rat(1, 2)
    /\ lookback_window = CausalWindow
    /\ hedge_ratio \in HedgeRatios
    /\ margin_requirement = Rat(13, 10)
    /\ df1 \in [1..CBars -> Prices]
    /\ df2 \in [1..CBars -> Prices]
    /\ z_score = <<>> /\ signals = <<>> /\ trades = <<>>
    /\ position = 0 /\ i = 0
    /\ trades_with_metrics = <<>>
    /\ idx = 0
    /\ NoSummary
    /\ pc = "spread"

NextCausal ==
    \/ CalculateSpread
    \/ SkipNaN
    \/ EnterLong
    \/ EnterShort
    \/ StayFlat
    \/ ExitLong
    \/ ExitShort
    \/ HoldPosition
    \/ LoopEnd
    \/ ForcedExit
    \/ NoForcedExit

SpecCausal == InitCausal /\ [][NextCausal]_vars

----------------------------------------------------------------------------
(* SupertrendBacktester (src/strategies/supertrend_backtest_final.py): the  *)
(* candle loop of execute_backtest, the position bookkeeping and the       *)
(* performance metrics.  Money and prices are whole numbers, times are     *)
(* hours since the first candle.                                           *)

SBars == 4              \* most candles of a backtest
PeriodHours == 60       \* end_date, in hours after the first candle
ClosePrices == {50, 100, 250}
\* hours from one candle to the next: the next hour or the next trading day
CandleGaps == {1, 24}

initial_capital == 100000
stop_loss_pct == 2
take_profit_pct == 4
lot_size == 10
EquityInterval == 24    \* timedelta(hours=24) of update_equity_curve

None == "None"
\* self.current_trade = None: a dict without the keys of a trade
NoTrade == [none |-> TRUE]
IsNone(trade) == DOMAIN trade = {"none"}

\* __init__ lines 53-64
NewBacktester ==
    [capital |-> initial_capital,
     position |-> 0,
     position_avg_price |-> 0,
     position_type |-> None,
     position_entry_time |-> None,
     current_trade |-> NoTrade,
     trades |-> <<>>,
     equity_curve |-> <<>>,
     daily_returns |-> <<>>]

\* enter_position lines 355-386
EnterPosition(b, price, time, position_type, reason) ==
    LET quantity == ((b.capital \div (price * lot_size)) * lot_size)
        signed == IF position_type = "long" THEN quantity ELSE -quantity
    IN  IF quantity < lot_size THEN b
        ELSE [b EXCEPT
                !.position = signed,
                !.position_avg_price = price,
                !.position_type = position_type,
                !.position_entry_time = time,
                !.current_trade =
                    [entry_time |-> time, exit_time |-> None,
                     position_type |-> position_type,
                     entry_price |-> price, exit_price |-> None,
                     quantity |-> signed,
                     entry_capital |-> b.capital, exit_capital |-> None,
                     pnl |-> None, pnl_pct |-> None,
                     reason_entry |-> reason, reason_exit |-> None,
                     duration_hours |-> None]]

\* slip: the result of the trade is not added to the capital
Settled_Unchanged(capital, pnl) == capital
\* self.capital += pnl, line 401
Settled(capital, pnl) == capital + pnl

\* close_position lines 390-424
ClosePosition(b, price, time, reason) ==
    IF b.position = 0 \/ IsNone(b.current_trade) THEN b
    ELSE LET move == IF b.position_type = "long"
                     THEN price - b.position_avg_price
                     ELSE b.position_avg_price - price
             pnl == move * Abs(b.position)
             pnl_pct == Rat(move * 100, b.position_avg_price)
             capital == Settled(b.capital, pnl)
             trade == SetKeys(b.current_trade,
                        [exit_time |-> time, exit_price |-> price,
                         exit_capital |-> capital, pnl |-> pnl,
                         pnl_pct |-> pnl_pct, reason_exit |-> reason,
                         duration_hours |-> time - b.current_trade["entry_time"]])
             prev_equity == b.equity_curve[Len(b.equity_curve)]["equity"]
         IN  [b EXCEPT
                !.capital = capital,
                !.trades = Append(@, trade),
                !.daily_returns =
                    IF Len(b.equity_curve) > 0 /\ prev_equity > 0
                    THEN Append(@, Rat(capital - prev_equity, prev_equity))
                    ELSE @,
                !.position = 0,
                !.position_avg_price = 0,
                !.position_type = None,
                !.current_trade = NoTrade]

\* update_equity_curve lines 426-442
UpdateEquityCurve(b, current_price, time) ==
    LET position_value ==
            IF b.position > 0
            THEN (current_price - b.position_avg_price) * b.position
            ELSE IF b.position < 0
            THEN (b.position_avg_price - current_price) * Abs(b.position)
            ELSE 0
        total_equity == b.capital + position_value
    IN  IF Len(b.equity_curve) = 0
           \/ time - b.equity_curve[Len(b.equity_curve)]["time"] >= EquityInterval
        THEN [b EXCEPT !.equity_curve =
                Append(@, [time |-> time, equity |-> total_equity,
                           capital |-> b.capital,
                           position_value |-> position_value,
                           price |-> current_price])]
        ELSE b

\* the flags of calculate_all_indicators lines 244-263 for a candle: the
\* supertrend is bullish or bearish, the entry conditions and the reversal
\* are those of its side
enter_long(row) == row.is_bullish_st /\ row.enter
enter_short(row) == ~row.is_bullish_st /\ row.enter
trend_reversal_to_bearish(row) == ~row.is_bullish_st /\ row.reversal
trend_reversal_to_bullish(row) == row.is_bullish_st /\ row.reversal

\* lines 290-301
ReversalExit(b, row) ==
    IF b.position > 0 /\ trend_reversal_to_bearish(row)
    THEN ClosePosition(b, row.close, row.time, "trend_reversal")
    ELSE IF b.position < 0 /\ trend_reversal_to_bullish(row)
    THEN ClosePosition(b, row.close, row.time, "trend_reversal")
    ELSE b

\* lines 304-334; stop_price and take_price compared after multiplying by 100
StopOrTake(b, row) ==
    IF b.position # 0 /\ b.position_avg_price > 0
    THEN IF b.position_type = "long"
         THEN IF row.close * 100 <= b.position_avg_price * (100 - stop_loss_pct)
              THEN ClosePosition(b, row.close, row.time, "stop_loss")
              ELSE IF row.close * 100 >= b.position_avg_price * (100 + take_profit_pct)
              THEN ClosePosition(b, row.close, row.time, "take_profit")
              ELSE b
         ELSE IF row.close * 100 >= b.position_avg_price * (100 + stop_loss_pct)
              THEN ClosePosition(b, row.close, row.time, "stop_loss")
              ELSE IF row.close * 100 <= b.position_avg_price * (100 - take_profit_pct)
              THEN ClosePosition(b, row.close, row.time, "take_profit")
              ELSE b
    ELSE b

\* lines 337-351
Entry(b, row) ==
    IF b.position = 0
    THEN IF enter_long(row)
         THEN EnterPosition(b, row.close, row.time, "long", "enter_long")
         ELSE IF enter_short(row)
         THEN EnterPosition(b, row.close, row.time, "short", "enter_short")
         ELSE b
    ELSE b

\* the candles that can follow the candle at time t
Rows(t) ==
    {[close |-> c, time |-> t + g, is_bullish_st |-> u, enter |-> e, reversal |-> r] :
        c \in ClosePrices, g \in CandleGaps, u \in BOOLEAN, e \in BOOLEAN,
        r \in BOOLEAN}

InCandleLoop == pc = "candles" /\ bar < df_len

SupertrendFrame ==
    UNCHANGED <<Config, df1, df2, SignalState, trades_with_metrics, idx, Summary,
                FeedVars, ScreenVars>>

\* lines 281-287: the end of the period closes the position and skips the bar
ForcedClose ==
    /\ InCandleLoop
    /\ \E row \in Rows(current_row.time) :
          /\ row.time >= PeriodHours /\ backtester.position # 0
          /\ current_row' = row
          /\ backtester' = ClosePosition(backtester, row.close, row.time, "end_of_period")
    /\ bar' = bar + 1
    /\ UNCHANGED <<pc, df_len, metrics>>
    /\ SupertrendFrame

\* one iteration of the loop of execute_backtest, lines 276-353
ProcessCandle ==
    /\ InCandleLoop
    /\ \E row \in Rows(current_row.time) :
          /\ ~(row.time >= PeriodHours /\ backtester.position # 0)
          /\ current_row' = row
          /\ backtester' =
               UpdateEquityCurve(Entry(StopOrTake(ReversalExit(backtester, row), row), row),
                                 row.close, row.time)
    /\ bar' = bar + 1
    /\ UNCHANGED <<pc, df_len, metrics>>
    /\ SupertrendFrame

\* run lines 571-578: a position left open after the last candle
FinalClose ==
    /\ pc = "candles" /\ bar >= df_len
    /\ backtester' =
         IF backtester.position # 0 /\ df_len > 0
         THEN ClosePosition(backtester, current_row.close, current_row.time, "end_of_data")
         ELSE backtester
    /\ pc' = "closed"
    /\ UNCHANGED <<df_len, bar, current_row, metrics>>
    /\ SupertrendFrame

\* sum(t['pnl'] for t in ts)
RECURSIVE SumPnl(_)
SumPnl(ts) == IF ts = <<>> THEN 0 ELSE ts[1]["pnl"] + SumPnl(Tail(ts))

\* lines 460-482
TradeMetricsOf(ts) ==
    LET winning_trades == {k \in 1..Len(ts) : ts[k]["pnl"] > 0}
        losing_trades == {k \in 1..Len(ts) : ts[k]["pnl"] < 0}
        total_win == SumPnl(SelectSeq(ts, LAMBDA t : t["pnl"] > 0))
        total_loss == SumPnl(SelectSeq(ts, LAMBDA t : t["pnl"] < 0))
    IN  [winning_trades |-> Cardinality(winning_trades),
         losing_trades |-> Cardinality(losing_trades),
         win_rate_pct |-> Rat(Cardinality(winning_trades) * 100, Len(ts)),
         total_win |-> total_win,
         total_loss |-> total_loss,
         profit_factor |->
             IF total_loss # 0 THEN Rat(Abs(total_win), Abs(total_loss))
             ELSE [n |-> 1, d |-> 0],
         avg_win |-> IF winning_trades # {}
                     THEN Rat(total_win, Cardinality(winning_trades)) ELSE RInt(0),
         avg_loss |-> IF losing_trades # {}
                      THEN Rat(total_loss, Cardinality(losing_trades)) ELSE RInt(0)]

\* lines 484-495; a ratio is kept as the mean and the variance it is made of
ReturnMetricsOf(daily_returns) ==
    LET negative_returns == SelectSeq(daily_returns, LAMBDA r : RPos(RNeg(r)))
        sharpe == IF FloatLt(RInt(0), Variance(daily_returns))
                  THEN [sharpe_ratio |-> [mean |-> Mean(daily_returns),
                                          variance |-> Variance(daily_returns)]]
                  ELSE <<>>
        sortino == IF FloatLt(RInt(0), Variance(negative_returns))
                   THEN [sortino_ratio |-> [mean |-> Mean(daily_returns),
                                            variance |-> Variance(negative_returns)]]
                   ELSE <<>>
    IN  SetKeys(sharpe, sortino)

\* the equities of the curve, line 498
Equities(curve) == [k \in 1..Len(curve) |-> RInt(curve[k]["equity"])]

\* calculate_performance_metrics lines 444-505
PerformanceMetrics(b) ==
    IF b.equity_curve = <<>> THEN <<>>
    ELSE LET final_equity == b.equity_curve[Len(b.equity_curve)]["equity"]
             base == [initial_capital |-> initial_capital,
                      final_equity |-> final_equity,
                      total_return_pct |->
                          Rat((final_equity - initial_capital) * 100, initial_capital),
                      total_pnl |-> final_equity - initial_capital,
                      total_trades |-> Len(b.trades)]
             m1 == IF b.trades # <<>> THEN SetKeys(base, TradeMetricsOf(b.trades))
                   ELSE base
             m2 == IF b.daily_returns # <<>>
                   THEN SetKeys(m1, ReturnMetricsOf(b.daily_returns)) ELSE m1
         IN  IF Len(b.equity_curve) > 1
             THEN SetKey(m2, "max_drawdown_pct", MaxDrawdown(Equities(b.equity_curve)))
             ELSE m2

\* run lines 580-585
CalculateMetrics ==
    /\ pc = "closed"
    /\ metrics' = PerformanceMetrics(backtester)
    /\ pc' = IF PerformanceMetrics(backtester) = <<>> THEN "no_metrics" ELSE "saved_metrics"
    /\ UNCHANGED <<backtester, df_len, bar, current_row>>
    /\ SupertrendFrame

\* no PairArbitrageBacktest runs beside the SupertrendBacktester
IdleBacktestsOfPair ==
    /\ entry_threshold = Rat(2, 1)
    /\ exit_threshold = Rat(1, 2)
    /\ lookback_window = LookbackWindow
    /\ hedge_ratio = Rat(6, 5)
    /\ margin_requirement = Rat(13, 10)
    /\ df1 = <<>> /\ df2 = <<>>
    /\ z_score = <<>> /\ signals = <<>> /\ trades = <<>>
    /\ position = 0 /\ i = 0
    /\ trades_with_metrics = <<>>
    /\ idx = 0
    /\ strategy_returns = <<>> /\ stats = <<>> /\ report = <<>> /\ results = <<>>

\* the object after __init__, the candles loaded and the loop of line 276 entered
InitSupertrend ==
    /\ entry_threshold = Rat(2, 1)
    /\ exit_threshold = Rat(1, 2)
    /\ lookback_window = LookbackWindow
    /\ hedge_ratio = Rat(6, 5)
    /\ margin_requirement = Rat(13, 10)
    /\ df1 = <<>> /\ df2 = <<>>
    /\ z_score = <<>> /\ signals = <<>> /\ trades = <<>>
    /\ position = 0 /\ i = 0
    /\ trades_with_metrics = <<>>
    /\ idx = 0
    /\ strategy_returns = <<>> /\ stats = <<>> /\ report = <<>> /\ results = <<>>
    /\ backtester = NewBacktester
    /\ df_len \in 1..SBars
    /\ bar = 1
    \* df.iloc[0], which the loop never trades on, starts the clock
    /\ current_row = [close |-> 100, time |-> 0, is_bullish_st |-> TRUE,
                      enter |-> FALSE, reversal |-> FALSE]
    /\ metrics = <<>>
    /\ NoDataFeed
    /\ pc = "candles"

NextSupertrend ==
    \/ ForcedClose
    \/ ProcessCandle
    \/ FinalClose
    \/ CalculateMetrics

SpecSupertrend == InitSupertrend /\ [][NextSupertrend]_vars

----------------------------------------------------------------------------
(* The three position methods called directly, in any order *)

SCalls == 4             \* calls made on one SupertrendBacktester

\* the arguments a call can get: a price and the hours since the last call
Calls(t) ==
    {[call |-> c, price |-> p, time |-> t + g, position_type |-> side] :
        c \in {"enter_position", "close_position", "update_equity_curve"},
        p \in {50, 100, 200}, g \in {12, 24}, side \in {"long", "short"}}

InCalls == pc = "calls"

CallEnterPosition ==
    /\ InCalls /\ bar < SCalls
    /\ \E c \in Calls(current_row.time) :
          /\ c.call = "enter_position"
          /\ current_row' = c
          /\ backtester' = EnterPosition(backtester, c.price, c.time, c.position_type,
                                         "direct")
    /\ bar' = bar + 1
    /\ UNCHANGED <<pc, df_len, metrics>>
    /\ SupertrendFrame

CallClosePosition ==
    /\ InCalls /\ bar < SCalls
    /\ \E c \in Calls(current_row.time) :
          /\ c.call = "close_position" /\ c.position_type = "long"
          /\ current_row' = c
          /\ backtester' = ClosePosition(backtester, c.price, c.time, "direct")
    /\ bar' = bar + 1
    /\ UNCHANGED <<pc, df_len, metrics>>
    /\ SupertrendFrame

CallUpdateEquityCurve ==
    /\ InCalls /\ bar < SCalls
    /\ \E c \in Calls(current_row.time) :
          /\ c.call = "update_equity_curve" /\ c.position_type = "long"
          /\ current_row' = c
          /\ backtester' = UpdateEquityCurve(backtester, c.price, c.time)
    /\ bar' = bar + 1
    /\ UNCHANGED <<pc, df_len, metrics>>
    /\ SupertrendFrame

NextCalls ==
    \/ CallEnterPosition
    \/ CallClosePosition
    \/ CallUpdateEquityCurve

\* the object after __init__, before any call
InitCalls ==
    /\ IdleBacktestsOfPair
    /\ backtester = NewBacktester
    /\ df_len = 0
    /\ bar = 0
    /\ current_row = [call |-> None, price |-> 0, time |-> 0, position_type |-> None]
    /\ metrics = <<>>
    /\ NoDataFeed
    /\ pc = "calls"

SpecCalls == InitCalls /\ [][NextCalls]_vars

----------------------------------------------------------------------------
(* HistoricalDataFetcher (src/data_feed/fetch_historical_data.py): the     *)
(* fetch loop, the price matrix and the run that saves them.  A series is  *)
(* a sequence of rows [date, close]; a price matrix is its column list and *)
(* its rows [date, cells], cells mapping each column to a close or NA.     *)

FInstruments == 2       \* most instruments of the instruments file
FDates == 4             \* trading dates 1..FDates of the fetched period
WColumns == 4           \* most instruments of a price matrix built directly
WDates == 4             \* trading dates 1..WDates of their histories
\* min_days of fetch_all_historical_data (30 days of a 365-day period),
\* scaled to the 4-date period
MinDays == 2
\* min_common_days, the default of CorrelationCalculator (100), on that scale
MinCommonDays == 3
TopPairs == 20          \* head(20) of calculate_basic_correlations

NA == -1                \* a missing cell; closes are never negative

\* the instruments file lists each ticker once, in an order that is not the
\* alphabetical one
Listing == <<"SBER", "GAZP", "LKOH", "ALRS", "TGKJ", "MOEX">>

\* candles of the dates a..b, the first date twice when repeated; the close
\* of a candle is its number in the answer
Candles(a, b, repeated) ==
    LET dates == (IF repeated THEN <<a>> ELSE <<>>) \o [k \in 1..(b - a + 1) |-> a + k - 1]
    IN  [k \in 1..Len(dates) |-> [date |-> dates[k], close |-> k]]

\* what get_all_candles can do for one instrument: raise, or return candles
ApiAnswers(last_date) ==
    {[raises |-> TRUE, candles |-> <<>>], [raises |-> FALSE, candles |-> <<>>]}
    \cup {[raises |-> FALSE, candles |-> Candles(a, b, r)] :
            a \in 1..last_date, b \in 1..last_date, r \in BOOLEAN}

\* df.sort_values('date'): a row is put after the rows dated no later
RECURSIVE SortByDate(_)
SortByDate(rows) ==
    IF rows = <<>> THEN <<>>
    ELSE LET sorted == SortByDate(SubSeq(rows, 1, Len(rows) - 1))
             last == rows[Len(rows)]
             before == SelectSeq(sorted, LAMBDA r : r.date <= last.date)
             after == SelectSeq(sorted, LAMBDA r : r.date > last.date)
         IN  before \o <<last>> \o after

NoFrame == [ok |-> FALSE, df |-> <<>>]

\* get_historical_data_sync lines 99-137: None on an exception or without data
GetHistoricalData(answer) ==
    IF answer.raises \/ answer.candles = <<>> THEN NoFrame
    ELSE [ok |-> TRUE, df |-> SortByDate(answer.candles)]

\* slip: a history of exactly min_days rows is refused
Loaded_Strict(frame) == frame.ok /\ Len(frame.df) > MinDays
\* line 166
Loaded(frame) == frame.ok /\ Len(frame.df) >= MinDays

\* d[key] = value on a dict kept in insertion order, as a sequence of items
DictSet(d, key, value) ==
    IF \E k \in 1..Len(d) : d[k].key = key
    THEN [k \in 1..Len(d) |-> IF d[k].key = key THEN [key |-> key, value |-> value] ELSE d[k]]
    ELSE Append(d, [key |-> key, value |-> value])

Keys(d) == [k \in 1..Len(d) |-> d[k].key]

\* lines 171-182
Metadata(ticker, df) ==
    [ticker |-> ticker,
     data_points |-> Len(df),
     first_date |-> df[1].date,
     last_date |-> df[Len(df)].date,
     price_change |->
        IF Len(df) > 1
        THEN FloatMul(FloatDiv(RInt(df[Len(df)].close - df[1].close), RInt(df[1].close)),
                      RInt(100))
        ELSE RInt(0)]

PairAndSupertrend ==
    <<Config, df1, df2, SignalState, trades_with_metrics, idx, Summary,
      backtester, df_len, bar, current_row, metrics>>

FeedFrame == UNCHANGED <<PairAndSupertrend, ScreenVars>>

\* one iteration of the loop of fetch_all_historical_data, lines 156-194
FetchInstrument ==
    /\ pc = "fetch" /\ row_i < Len(instruments_df)
    /\ LET ticker == instruments_df[row_i + 1]
           frame == GetHistoricalData(api[ticker])
       IN  IF Loaded(frame)
           THEN /\ historical_data' = DictSet(historical_data, ticker, frame.df)
                /\ successful' = successful + 1
                /\ metadata' = Append(metadata, Metadata(ticker, frame.df))
                /\ UNCHANGED failed
           ELSE /\ failed' = failed + 1
                /\ UNCHANGED <<historical_data, successful, metadata>>
    /\ row_i' = row_i + 1
    /\ UNCHANGED <<pc, instruments_df, api, price_matrix, correlations, files>>
    /\ FeedFrame

\* lines 196-199
FetchEnd ==
    /\ pc = "fetch" /\ row_i >= Len(instruments_df)
    /\ pc' = "fetched"
    /\ UNCHANGED FeedVars
    /\ FeedFrame

\* run lines 341-343
NoHistoricalData ==
    /\ pc = "fetched" /\ historical_data = <<>>
    /\ pc' = "no_data"
    /\ UNCHANGED FeedVars
    /\ FeedFrame

\* sorted(all_dates)
RECURSIVE Sorted(_)
Sorted(S) ==
    IF S = {} THEN <<>>
    ELSE LET least == CHOOSE x \in S : \A y \in S : x <= y
         IN  <<least>> \o Sorted(S \ {least})

\* price_matrix.join(df_temp, how='left') for the column of one ticker: a row
\* of the matrix is repeated for every row of the series with its date
RECURSIVE JoinLeft(_, _, _)
JoinLeft(rows, ticker, df) ==
    IF rows = <<>> THEN <<>>
    ELSE LET row == Head(rows)
             found == SelectSeq(df, LAMBDA r : r.date = row.date)
         IN  (IF found = <<>>
              THEN <<[row EXCEPT !.cells = SetKey(@, ticker, NA)]>>
              ELSE [k \in 1..Len(found) |->
                      [row EXCEPT !.cells = SetKey(@, ticker, found[k].close)]])
             \o JoinLeft(Tail(rows), ticker, df)

\* the loop of lines 220-226 from item k of the dict on
RECURSIVE JoinFrom(_, _, _)
JoinFrom(matrix, d, k) ==
    IF k > Len(d) THEN matrix
    ELSE JoinFrom([columns |-> Append(matrix.columns, d[k].key),
                   rows |-> JoinLeft(matrix.rows, d[k].key, d[k].value)],
                  d, k + 1)

threshold == Rat(7, 10)     \* line 231

Present(row) == Cardinality({t \in DOMAIN row.cells : row.cells[t] # NA})

\* slip: the comment of line 231, at most 70% of the row missing
KeepsRow_MaxMissing(row, n_columns) ==
    (n_columns - Present(row)) * threshold.d <= n_columns * threshold.n
\* dropna(thresh=len(columns) * threshold) keeps a row with at least thresh cells
KeepsRow(row, n_columns) == Present(row) * threshold.d >= n_columns * threshold.n

EmptyFrame == [columns |-> <<>>, rows |-> <<>>]
\* DataFrame.empty
IsEmpty(matrix) == matrix.columns = <<>> \/ matrix.rows = <<>>

\* create_price_matrix lines 201-237
PriceMatrix(d) ==
    IF d = <<>> THEN EmptyFrame
    ELSE LET all_dates == UNION {{d[k].value[j].date : j \in 1..Len(d[k].value)} :
                                    k \in 1..Len(d)}
             sorted_dates == Sorted(all_dates)
             index == [columns |-> <<>>,
                       rows |-> [k \in 1..Len(sorted_dates) |->
                                    [date |-> sorted_dates[k], cells |-> <<>>]]]
             price_matrix_full == JoinFrom(index, d, 1)
         IN  [columns |-> price_matrix_full.columns,
              rows |-> SelectSeq(price_matrix_full.rows,
                          LAMBDA row : KeepsRow(row, Len(price_matrix_full.columns)))]

\* run line 346
CreatePriceMatrix ==
    /\ pc = "fetched" /\ historical_data # <<>>
    /\ price_matrix' = PriceMatrix(historical_data)
    /\ pc' = "matrix"
    /\ UNCHANGED <<instruments_df, api, row_i, historical_data, metadata,
                   successful, failed, correlations, files>>
    /\ FeedFrame

\* run lines 348-350
NoPriceMatrix ==
    /\ pc = "matrix" /\ IsEmpty(price_matrix)
    /\ pc' = "no_matrix"
    /\ UNCHANGED FeedVars
    /\ FeedFrame

\* the cells of two columns on the rows where both have a close
CommonRows(matrix, t1, t2) ==
    SelectSeq(matrix.rows, LAMBDA r : r.cells[t1] # NA /\ r.cells[t2] # NA)

RECURSIVE SumSeq(_)
SumSeq(s) == IF s = <<>> THEN 0 ELSE Head(s) + SumSeq(Tail(s))

\* the Pearson correlation of xs and ys as its signed square [num, den]:
\* with C = n*Sxy - Sx*Sy, Vx = n*Sxx - Sx^2, Vy = n*Syy - Sy^2 it is
\* sign(C) * C^2 / (Vx * Vy) in lowest terms, and NaN with a constant side
\* or under 2 points
Pearson(xs, ys) ==
    LET n == Len(xs)
        C == n * SumSeq([k \in 1..n |-> xs[k] * ys[k]]) - SumSeq(xs) * SumSeq(ys)
        Vx == n * SumSeq([k \in 1..n |-> xs[k] * xs[k]]) - SumSeq(xs) * SumSeq(xs)
        Vy == n * SumSeq([k \in 1..n |-> ys[k] * ys[k]]) - SumSeq(ys) * SumSeq(ys)
        g == Gcd(C * C, Vx * Vy)
    IN  IF n < 2 \/ Vx = 0 \/ Vy = 0 THEN NaN
        ELSE [num |-> Sgn(C) * ((C * C) \div g), den |-> (Vx * Vy) \div g]

\* price_matrix.corr() at two columns: over the rows where both are present
Corr(matrix, t1, t2) ==
    LET rows == CommonRows(matrix, t1, t2)
    IN  Pearson([k \in 1..Len(rows) |-> rows[k].cells[t1]],
                [k \in 1..Len(rows) |-> rows[k].cells[t2]])

\* abs(a) < abs(b) for two correlations
AbsLt(a, b) == Abs(a.num) * b.den < Abs(b.num) * a.den

\* the pairs i < j of columns in the order of the two loops
RECURSIVE ScanFrom(_, _, _)
ScanFrom(n, a, b) ==
    IF a >= n THEN <<>>
    ELSE IF b > n THEN ScanFrom(n, a + 1, a + 2)
    ELSE <<<<a, b>>>> \o ScanFrom(n, a, b + 1)
ScanOrder(n) == ScanFrom(n, 1, 2)

\* slip: the pairs are listed whether or not their correlation is defined
DefinedCorrelations_All(matrix) ==
    LET order == ScanOrder(Len(matrix.columns))
    IN  [k \in 1..Len(order) |->
           LET t1 == matrix.columns[order[k][1]]
               t2 == matrix.columns[order[k][2]]
           IN  [ticker1 |-> t1, ticker2 |-> t2,
                correlation |-> Corr(matrix, t1, t2)]]
\* lines 248-263: the pairs of columns with a defined correlation
DefinedCorrelations(matrix) ==
    LET order == ScanOrder(Len(matrix.columns))
        all == [k \in 1..Len(order) |->
                  LET t1 == matrix.columns[order[k][1]]
                      t2 == matrix.columns[order[k][2]]
                  IN  [ticker1 |-> t1, ticker2 |-> t2,
                       correlation |-> Corr(matrix, t1, t2)]]
    IN  SelectSeq(all, LAMBDA p : ~IsNa(p.correlation))

\* the orders sort_values('abs_correlation', ascending=False) can leave the
\* rows in: descending, rows with the same key in any order
SortedDescending(s) ==
    {[k \in 1..Len(s) |-> s[p[k]]] :
        p \in {q \in [1..Len(s) -> 1..Len(s)] :
                 /\ \A x, y \in 1..Len(s) : x # y => q[x] # q[y]
                 /\ \A x \in 1..(Len(s) - 1) :
                       ~AbsLt(s[q[x]].correlation, s[q[x + 1]].correlation)}}

FirstRows(s, n) == SubSeq(s, 1, IF Len(s) < n THEN Len(s) ELSE n)

\* run line 353, calculate_basic_correlations lines 239-269
BasicCorrelations ==
    /\ pc = "matrix" /\ ~IsEmpty(price_matrix)
    /\ DefinedCorrelations(price_matrix) # <<>>
    /\ \E sorted \in SortedDescending(DefinedCorrelations(price_matrix)) :
          correlations' = FirstRows(sorted, TopPairs)
    /\ pc' = "correlations"
    /\ UNCHANGED <<instruments_df, api, row_i, historical_data, metadata,
                   successful, failed, price_matrix, files>>
    /\ FeedFrame

\* line 267 on a frame without rows: it has no column abs_correlation and
\* sort_values raises KeyError, which ends run
NoCorrelations ==
    /\ pc = "matrix" /\ ~IsEmpty(price_matrix)
    /\ DefinedCorrelations(price_matrix) = <<>>
    /\ pc' = "key_error"
    /\ UNCHANGED FeedVars
    /\ FeedFrame

\* run line 356, save_results lines 271-322
SaveFiles ==
    /\ pc = "correlations"
    /\ files' = [price_file |-> price_matrix,
                 metadata_file |-> metadata,
                 correlations_file |-> correlations,
                 stats_file |->
                    [total_instruments |-> Len(historical_data),
                     trading_days |-> Len(price_matrix.rows),
                     start_date |-> price_matrix.rows[1].date,
                     end_date |-> price_matrix.rows[Len(price_matrix.rows)].date]]
    /\ pc' = "files_saved"
    /\ UNCHANGED <<instruments_df, api, row_i, historical_data, metadata,
                   successful, failed, price_matrix, correlations>>
    /\ FeedFrame

NextFetch ==
    \/ FetchInstrument
    \/ FetchEnd
    \/ NoHistoricalData
    \/ CreatePriceMatrix
    \/ NoPriceMatrix
    \/ BasicCorrelations
    \/ NoCorrelations
    \/ SaveFiles

Prefix(s, n) == SubSeq(s, 1, n)
Range(s) == {s[k] : k \in 1..Len(s)}

\* no pair is backtested and no screener runs during a fetch
IdleBacktests ==
    /\ entry_threshold = Rat(2, 1)
    /\ exit_threshold = Rat(1, 2)
    /\ lookback_window = LookbackWindow
    /\ hedge_ratio = Rat(6, 5)
    /\ margin_requirement = Rat(13, 10)
    /\ df1 = <<>> /\ df2 = <<>>
    /\ z_score = <<>> /\ signals = <<>> /\ trades = <<>>
    /\ position = 0 /\ i = 0
    /\ trades_with_metrics = <<>>
    /\ idx = 0
    /\ strategy_returns = <<>> /\ stats = <<>> /\ report = <<>> /\ results = <<>>
    /\ NoSupertrend

\* the fetcher after __init__ (lines 41-48), at the head of the loop
NewFetcher ==
    /\ row_i = 0
    /\ historical_data = <<>>
    /\ metadata = <<>>
    /\ successful = 0
    /\ failed = 0
    /\ price_matrix = <<>>
    /\ correlations = <<>>
    /\ files = <<>>

\* run up to line 338: the instruments file is loaded and the loop starts
InitFetch ==
    /\ IdleBacktests
    /\ NoScreen
    /\ \E n \in 0..FInstruments : instruments_df = Prefix(Listing, n)
    /\ api \in [Range(instruments_df) -> ApiAnswers(FDates)]
    /\ NewFetcher
    /\ pc = "fetch"

SpecFetch == InitFetch /\ [][NextFetch]_vars

\* the histories the loop can have stored for the first n tickers: each one
\* sorted, of at least min_days rows
Histories(n) ==
    {h \in [1..n -> {Candles(a, b, FALSE) : a \in 1..WDates, b \in 1..WDates}] :
        \A k \in 1..n : Len(h[k]) >= MinDays}

\* the loop has ended with every listed instrument loaded
InitMatrix ==
    /\ IdleBacktests
    /\ NoScreen
    /\ \E n \in 1..WColumns :
          /\ instruments_df = Prefix(Listing, n)
          /\ \E h \in Histories(n) :
                /\ historical_data = [k \in 1..n |-> [key |-> Listing[k], value |-> h[k]]]
                /\ metadata = [k \in 1..n |-> Metadata(Listing[k], h[k])]
                /\ api = [t \in Range(instruments_df) |->
                            [raises |-> FALSE,
                             candles |-> h[CHOOSE k \in 1..n : Listing[k] = t]]]
          /\ row_i = n
          /\ successful = n
    /\ failed = 0
    /\ price_matrix = <<>>
    /\ correlations = <<>>
    /\ files = <<>>
    /\ pc = "fetched"

\* create_price_matrix and the test of its result in run
NextMatrix ==
    \/ CreatePriceMatrix
    \/ NoPriceMatrix

SpecMatrix == InitMatrix /\ [][NextMatrix]_vars

----------------------------------------------------------------------------
(* The screeners: find_strong_pairs of CorrelationCalculator                *)
(* (src/data_feed/calculate_correlations.py) and find_all_pairs of         *)
(* CointegratedPairsFinder (src/data_feed/find_cointegrated_pairs.py).     *)
(* Both read the price matrix the fetcher saved.  The p-values of the      *)
(* Engle-Granger and ADF tests come from statsmodels and are inputs.       *)

SDays == 3              \* rows of the price matrix that is screened

\* len(spread) < 50 of test_spread_stationarity, scaled like min_common_days
AdfMinObservations == 3

coint_pvalue_threshold == Rat(1, 20)    \* the default of __init__, line 37
adf_pvalue_threshold == Rat(1, 20)      \* the default of __init__, line 38

\* the p-values a test can return: below, at and above the threshold, or NaN
PValues == {Rat(1, 100), Rat(1, 20), Rat(1, 2), FloatNaN}

\* slip: the rows with a missing price in any column are dropped
DropNa_AnyColumn(matrix, ticker) ==
    LET rows == SelectSeq(matrix.rows,
                          LAMBDA r : \A t \in Range(matrix.columns) : r.cells[t] # NA)
    IN  [k \in 1..Len(rows) |-> [date |-> rows[k].date, value |-> rows[k].cells[ticker]]]
\* price_matrix[ticker].dropna(): the series of a column, indexed by date
DropNa(matrix, ticker) ==
    LET rows == SelectSeq(matrix.rows, LAMBDA r : r.cells[ticker] # NA)
    IN  [k \in 1..Len(rows) |-> [date |-> rows[k].date, value |-> rows[k].cells[ticker]]]

\* data1.index.intersection(data2.index)
Intersection(data1, data2) ==
    LET both == SelectSeq(data1, LAMBDA r : \E k \in 1..Len(data2) : data2[k].date = r.date)
    IN  [k \in 1..Len(both) |-> both[k].date]

\* data.loc[common_idx] on an index without repeated dates
AtDates(data, common_idx) ==
    [k \in 1..Len(common_idx) |->
        data[CHOOSE j \in 1..Len(data) : data[j].date = common_idx[k]].value]

\* abs(corr) >= self.min_correlation; False when corr is NaN
AbsAtLeast(corr, c) ==
    /\ ~IsNa(corr)
    /\ Abs(corr.num) * c.d * c.d >= c.n * c.n * corr.den

\* the columns of the pair the two loops visit after `visited` pairs
ScannedPair(visited) ==
    LET at == ScanOrder(Len(price_matrix.columns))[visited + 1]
    IN  [ticker1 |-> price_matrix.columns[at[1]], ticker2 |-> price_matrix.columns[at[2]]]

Scanning(at) == pc = at /\ scan < Len(ScanOrder(Len(price_matrix.columns)))
Scanned(at) == pc = at /\ scan >= Len(ScanOrder(Len(price_matrix.columns)))

ScreenFrame == UNCHANGED <<PairAndSupertrend, instruments_df, api, row_i,
                           historical_data, metadata, successful, failed,
                           correlations, files>>

\* slip: a pair with exactly min_common_days common days is refused
EnoughCommonDays_Strict(common_days) == common_days > min_common_days
\* calculate_correlations.py line 152
EnoughCommonDays(common_days) == common_days >= min_common_days

\* one iteration of the loops of find_strong_pairs, lines 136-169
StrongPair ==
    /\ Scanning("find_strong_pairs")
    /\ LET ticker1 == ScannedPair(scan).ticker1
           ticker2 == ScannedPair(scan).ticker2
           corr == Corr(price_matrix, ticker1, ticker2)
           data1 == DropNa(price_matrix, ticker1)
           data2 == DropNa(price_matrix, ticker2)
           common_days == Len(Intersection(data1, data2))
       IN  pairs' = IF AbsAtLeast(corr, min_correlation) /\ EnoughCommonDays(common_days)
                    THEN Append(pairs, [ticker1 |-> ticker1, ticker2 |-> ticker2,
                                        correlation |-> corr,
                                        common_days |-> common_days])
                    ELSE pairs
    /\ scan' = scan + 1
    /\ UNCHANGED <<pc, price_matrix, min_correlation, min_common_days, pair_k,
                   cointegrated_pairs, tested, RunTail, SpreadVars>>
    /\ ScreenFrame

\* slip: the list is returned as the loops built it
SortByAbsCorrelation_Unsorted(s) == s
\* pairs.sort(key=abs_correlation, reverse=True): the sort is stable, a pair
\* goes after the pairs whose key is not smaller
RECURSIVE SortByAbsCorrelation(_)
SortByAbsCorrelation(s) ==
    IF s = <<>> THEN <<>>
    ELSE LET sorted == SortByAbsCorrelation(SubSeq(s, 1, Len(s) - 1))
             last == s[Len(s)]
             before == SelectSeq(sorted, LAMBDA p : ~AbsLt(p.correlation, last.correlation))
             after == SelectSeq(sorted, LAMBDA p : AbsLt(p.correlation, last.correlation))
         IN  before \o <<last>> \o after

\* lines 171-175: the loops have ended, the list is sorted and returned
StrongPairsEnd ==
    /\ Scanned("find_strong_pairs")
    /\ pairs' = SortByAbsCorrelation(pairs)
    /\ pc' = "strong_pairs"
    /\ UNCHANGED <<price_matrix, min_correlation, min_common_days, scan, pair_k,
                   cointegrated_pairs, tested, RunTail, SpreadVars>>
    /\ ScreenFrame

\* one iteration of the loops of stage 1 of find_all_pairs, lines 264-287
ScreenPair ==
    /\ Scanning("stage1")
    /\ LET ticker1 == ScannedPair(scan).ticker1
           ticker2 == ScannedPair(scan).ticker2
           data1 == DropNa(price_matrix, ticker1)
           data2 == DropNa(price_matrix, ticker2)
           common_idx == Intersection(data1, data2)
           corr == Pearson(AtDates(data1, common_idx), AtDates(data2, common_idx))
       IN  pairs' = IF Len(common_idx) < min_common_days THEN pairs
                    ELSE IF AbsAtLeast(corr, min_correlation)
                    THEN Append(pairs, [ticker1 |-> ticker1, ticker2 |-> ticker2,
                                        correlation |-> corr,
                                        common_days |-> Len(common_idx)])
                    ELSE pairs
    /\ scan' = scan + 1
    /\ UNCHANGED <<pc, price_matrix, min_correlation, min_common_days, pair_k,
                   cointegrated_pairs, tested, RunTail, SpreadVars>>
    /\ ScreenFrame

\* lines 289-293: stage 1 has ended and the loop over its pairs starts
StageOneEnd ==
    /\ Scanned("stage1")
    /\ pc' = "stage2"
    /\ UNCHANGED <<price_matrix, min_correlation, min_common_days, scan, pairs,
                   pair_k, cointegrated_pairs, tested, RunTail, SpreadVars>>
    /\ ScreenFrame

\* slip: a p-value equal to the threshold passes
Below_OrEqual(p_value, limit) == IsFinite(p_value) /\ ~RLt(limit, p_value)
\* p_value < threshold on floats; False when the p-value is NaN
Below(p_value, limit) == IsFinite(p_value) /\ RLt(p_value, limit)

\* calculate_hedge_ratio, lines 119-136: the slope of the regression of
\* series1 on series2 over the common dates, NaN with too few of them
HedgeRatio(series1, series2) ==
    LET common_idx == Intersection(series1, series2)
        x == AtDates(series2, common_idx)
        y == AtDates(series1, common_idx)
        n == Len(x)
        C == n * SumSeq([k \in 1..n |-> x[k] * y[k]]) - SumSeq(x) * SumSeq(y)
        Vx == n * SumSeq([k \in 1..n |-> x[k] * x[k]]) - SumSeq(x) * SumSeq(x)
    IN  IF n < min_common_days THEN FloatNaN
        ELSE FloatDiv(RInt(C), RInt(Vx))

NotRun == [run |-> FALSE]
NoTest == [ticker1 |-> None, ticker2 |-> None]

\* the locals of an iteration of stage 2 once the tests have answered:
\* cointegration with p-value p, ADF test of the spread with p-value q
Tested(pair, p, q) ==
    LET series1 == DropNa(price_matrix, pair.ticker1)
        series2 == DropNa(price_matrix, pair.ticker2)
        common == Len(Intersection(series1, series2))
        \* test_cointegration, lines 138-155
        coint_pvalue == IF common < min_common_days THEN FloatNaN ELSE p
        is_cointegrated == common >= min_common_days /\ Below(p, coint_pvalue_threshold)
        hedge == HedgeRatio(series1, series2)
        \* test_spread_stationarity, lines 157-169
        refused == common < AdfMinObservations
        adf_pvalue == IF refused THEN FloatNaN ELSE q
        is_stationary == ~refused /\ Below(q, adf_pvalue_threshold)
    IN  [ticker1 |-> pair.ticker1, ticker2 |-> pair.ticker2,
         coint_pvalue |-> coint_pvalue,
         is_cointegrated |-> is_cointegrated,
         hedge_ratio |-> IF is_cointegrated THEN hedge ELSE NotRun,
         adf_pvalue |-> IF is_cointegrated /\ ~IsNaN(hedge) THEN adf_pvalue ELSE NotRun,
         is_spread_stationary |-> is_cointegrated /\ ~IsNaN(hedge) /\ is_stationary]

\* lines 321-333: the record of a pair that passed both gates
PairData(pair, t) ==
    [ticker1 |-> pair.ticker1, ticker2 |-> pair.ticker2,
     correlation |-> pair.correlation, common_days |-> pair.common_days,
     coint_pvalue |-> t.coint_pvalue,
     adf_pvalue |-> t.adf_pvalue,
     hedge_ratio |-> t.hedge_ratio,
     is_cointegrated |-> t.is_cointegrated,
     is_spread_stationary |-> t.is_spread_stationary]

\* one iteration of the loop of stage 2, lines 294-350, the cointegration
\* test answering with a p-value of P and the ADF test with one of Q
TestPairOver(P, Q) ==
    /\ pc = "stage2" /\ pair_k < Len(pairs)
    /\ \E p \in P, q \in Q :
          LET pair == pairs[pair_k + 1]
              t == Tested(pair, p, q)
          IN  /\ tested' = t
              /\ cointegrated_pairs' =
                    IF t.is_cointegrated /\ t.is_spread_stationary
                    THEN Append(cointegrated_pairs, PairData(pair, t))
                    ELSE cointegrated_pairs
    /\ pair_k' = pair_k + 1
    /\ UNCHANGED <<pc, price_matrix, min_correlation, min_common_days, scan, pairs,
                   RunTail, SpreadVars>>
    /\ ScreenFrame

TestPair == TestPairOver(PValues, PValues)

\* the p-values that tell the accepted pairs of a run apart: two that pass
\* the cointegration gate, and for the ADF test 0.0, which mackinnonp returns
\* for a statistic below its table
CointPValues == {Rat(1, 100), Rat(1, 50), Rat(1, 2), FloatNaN}
AdfPValues == {Rat(0, 1), Rat(1, 100), Rat(1, 2), FloatNaN}

TestScoredPair == TestPairOver(CointPValues, AdfPValues)

\* coint, linregress or adfuller raises: find_all_pairs has no handler, the
\* exception leaves it and run
TestRaises ==
    /\ pc = "stage2" /\ pair_k < Len(pairs)
    /\ pc' = "raised"
    /\ UNCHANGED <<price_matrix, min_correlation, min_common_days, scan, pairs,
                   pair_k, cointegrated_pairs, tested, RunTail, SpreadVars>>
    /\ ScreenFrame

\* lines 352-355: the loop has ended and cointegrated_pairs is returned
FindAllPairsEnd ==
    /\ pc = "stage2" /\ pair_k >= Len(pairs)
    /\ pc' = "cointegrated_pairs"
    /\ UNCHANGED <<price_matrix, min_correlation, min_common_days, scan, pairs,
                   pair_k, cointegrated_pairs, tested, RunTail, SpreadVars>>
    /\ ScreenFrame

\* run lines 528-534: find_all_pairs returned an empty list, run returns
RunNotFound ==
    /\ pc = "cointegrated_pairs" /\ cointegrated_pairs = <<>>
    /\ pc' = "not_found"
    /\ UNCHANGED <<price_matrix, min_correlation, min_common_days, scan, pairs,
                   pair_k, cointegrated_pairs, tested, RunTail, SpreadVars>>
    /\ ScreenFrame

\* save_results line 371: 1 / (coint_pvalue * adf_pvalue) on a float column
QualityScore(row) == FloatDiv(RInt(1), FloatMul(row.coint_pvalue, row.adf_pvalue))

WithQualityScore(rows) ==
    [k \in 1..Len(rows) |->
        [ticker1 |-> rows[k].ticker1, ticker2 |-> rows[k].ticker2,
         coint_pvalue |-> rows[k].coint_pvalue, adf_pvalue |-> rows[k].adf_pvalue,
         quality_score |-> QualityScore(rows[k])]]

\* slip: the frame is written in the order of the list
SortByQuality_Unsorted(s) == {s}
\* sort_values('quality_score', ascending=False), line 372: descending, rows
\* with the same score in any order
SortByQuality(s) ==
    {[k \in 1..Len(s) |-> s[p[k]]] :
        p \in {q \in [1..Len(s) -> 1..Len(s)] :
                 /\ \A x, y \in 1..Len(s) : x # y => q[x] # q[y]
                 /\ \A x \in 1..(Len(s) - 1) :
                       ~FloatLt(s[q[x]].quality_score, s[q[x + 1]].quality_score)}}

\* run line 537, save_results lines 357-453: the frame of the pairs is
\* scored, sorted and written to the pairs file
SaveRankedPairs ==
    /\ pc = "cointegrated_pairs" /\ cointegrated_pairs # <<>>
    /\ pairs_df' \in SortByQuality(WithQualityScore(cointegrated_pairs))
    /\ pc' = "results_saved"
    /\ UNCHANGED <<price_matrix, min_correlation, min_common_days, scan, pairs,
                   pair_k, cointegrated_pairs, tested, summary, SpreadVars>>
    /\ ScreenFrame

\* pairs_df.head(3) of print_summary, line 479: pairs_df is a new frame of
\* the list run passes, in the order of the list
TopRows(rows) ==
    LET head == FirstRows(rows, 3)
    IN  [k \in 1..Len(head) |->
            [ticker1 |-> head[k].ticker1, ticker2 |-> head[k].ticker2,
             coint_pvalue |-> head[k].coint_pvalue,
             adf_pvalue |-> head[k].adf_pvalue]]

\* run line 540, print_summary lines 455-511: the count of the pairs found
\* and the first three rows are printed
PrintSummary ==
    /\ pc = "results_saved"
    /\ summary' = [found |-> Len(cointegrated_pairs),
                   top |-> TopRows(cointegrated_pairs)]
    /\ pc' = "summary"
    /\ UNCHANGED <<price_matrix, min_correlation, min_common_days, scan, pairs,
                   pair_k, cointegrated_pairs, tested, pairs_df, SpreadVars>>
    /\ ScreenFrame

NextScreen ==
    \/ StrongPair
    \/ StrongPairsEnd
    \/ ScreenPair
    \/ StageOneEnd
    \/ TestPair
    \/ TestRaises
    \/ FindAllPairsEnd

\* CointegratedPairsFinder.run from find_all_pairs on
NextFinder ==
    \/ ScreenPair
    \/ StageOneEnd
    \/ TestScoredPair
    \/ TestRaises
    \/ FindAllPairsEnd
    \/ RunNotFound
    \/ SaveRankedPairs
    \/ PrintSummary

\* a column of closes that moves once: k closes lo, then closes hi
Step(k, lo, hi) == [j \in 1..SDays |-> IF j <= k THEN lo ELSE hi]
Steps == {Step(k, 1, 2) : k \in 0..SDays} \cup {Step(k, 2, 1) : k \in 0..SDays}

ScreenTickers == Prefix(Listing, 4)

\* the cells that can be missing: none, or one cell of the last row
Gaps == {<<>>} \cup {<<t, SDays>> : t \in Range(ScreenTickers)}

\* the price matrices the screeners load: what the fetcher saves for four
\* instruments, so every row has at least 70% of its cells
Matrices ==
    {[columns |-> ScreenTickers,
      rows |-> [r \in 1..SDays |->
                  [date |-> r,
                   cells |-> [t \in Range(ScreenTickers) |->
                                IF gap = <<t, r>> THEN NA ELSE closes[t][r]]]]] :
        closes \in {c \in [Range(ScreenTickers) -> Steps] :
                       /\ c[ScreenTickers[1]] = Step(1, 1, 2)
                       /\ c[ScreenTickers[4]] = Step(2, 2, 1)},
        gap \in Gaps}

\* the settings of the screeners: the defaults (0.7, every day common) and a
\* looser pair (0.5, one day may be missing)
Settings ==
    {[min_correlation |-> Rat(7, 10), min_common_days |-> SDays],
     [min_correlation |-> Rat(1, 2), min_common_days |-> SDays - 1]}

\* a screener after __init__ and load of the price matrix, at the head of the
\* loops of find_strong_pairs or of find_all_pairs
InitScreen ==
    /\ IdleBacktests
    /\ NoFeed
    /\ price_matrix \in Matrices
    /\ \E s \in Settings :
          /\ min_correlation = s.min_correlation
          /\ min_common_days = s.min_common_days
    /\ scan = 0
    /\ pairs = <<>>
    /\ pair_k = 0
    /\ cointegrated_pairs = <<>>
    /\ tested = NoTest
    /\ pairs_df = <<>>
    /\ summary = <<>>
    /\ spread = <<>>
    /\ hurst = <<>>
    /\ pc \in {"find_strong_pairs", "stage1"}

SpecScreen == InitScreen /\ [][NextScreen]_vars

FinderTickers == Prefix(Listing, 3)

\* the price matrices of the runs of the finder: three instruments
FinderMatrices ==
    {[columns |-> FinderTickers,
      rows |-> [r \in 1..SDays |->
                  [date |-> r,
                   cells |-> [t \in Range(FinderTickers) |->
                                IF gap = <<t, r>> THEN NA ELSE closes[t][r]]]]] :
        closes \in {c \in [Range(FinderTickers) -> Steps] :
                       /\ c[FinderTickers[1]] = Step(1, 1, 2)
                       /\ c[FinderTickers[3]] \in {Step(1, 2, 1), Step(2, 1, 2)}},
        gap \in {<<>>} \cup {<<t, SDays>> : t \in Range(FinderTickers)}}

\* a finder after __init__ and load_data, at the head of find_all_pairs
InitFinder ==
    /\ IdleBacktests
    /\ NoFeed
    /\ price_matrix \in FinderMatrices
    /\ \E s \in Settings :
          /\ min_correlation = s.min_correlation
          /\ min_common_days = s.min_common_days
    /\ scan = 0
    /\ pairs = <<>>
    /\ pair_k = 0
    /\ cointegrated_pairs = <<>>
    /\ tested = NoTest
    /\ pairs_df = <<>>
    /\ summary = <<>>
    /\ spread = <<>>
    /\ hurst = <<>>
    /\ pc = "stage1"

SpecFinder == InitFinder /\ [][NextFinder]_vars

----------------------------------------------------------------------------
(* calculate_hurst_exponent of find_cointegrated_pairs.py, lines 213-248 *)

HBars == 44             \* observations of the longest spread
max_lag == 20           \* the default of the parameter, line 213

\* range(2, min(max_lag, len(spread) // 2)), line 216: the end is excluded
HurstLags(n) ==
    LET stop == IF max_lag < n \div 2 THEN max_lag ELSE n \div 2
    IN  [k \in 1..(IF stop > 2 THEN stop - 2 ELSE 0) |-> k + 1]

\* spread.diff(lag).dropna(), line 221, on a spread without missing values
LagDiff(s, lag) == [k \in 1..(Len(s) - lag) |-> s[k + lag] - s[k]]

\* np.std(spread_diff) squared: the population variance
StdSquared(s) ==
    LET n == Len(s)
    IN  Rat(n * SumSeq([k \in 1..n |-> s[k] * s[k]]) - SumSeq(s) * SumSeq(s), n * n)

\* lines 219-225: tau, squared; NaN for a lag that leaves no difference
TauSquared(s, lags) ==
    [k \in 1..Len(lags) |->
        IF Len(LagDiff(s, lags[k])) > 0 THEN StdSquared(LagDiff(s, lags[k]))
        ELSE FloatNaN]

\* lines 239-243: the slope of log(tau) on log(lag), halved.  A tau of zero
\* has the logarithm -inf and the slope is NaN; otherwise the result is the
\* term of the regression, the logarithms being irrational
HalfLogSlope(valid_lags, valid_tau) ==
    IF \E k \in 1..Len(valid_tau) : RZero(valid_tau[k]) THEN FloatNaN
    ELSE [regressed |-> "log(std)", on |-> "log(lag)", divided_by |-> 2,
          lags |-> valid_lags, tau_squared |-> valid_tau]

\* calculate_hurst_exponent, lines 213-248
HurstExponent(s) ==
    LET lags == HurstLags(Len(s))
        tau == TauSquared(s, lags)
        valid == SelectSeq([k \in 1..Len(lags) |-> k], LAMBDA k : ~IsNaN(tau[k]))
        valid_lags == [k \in 1..Len(valid) |-> lags[valid[k]]]
        valid_tau == [k \in 1..Len(valid) |-> tau[valid[k]]]
    IN  [lags |-> lags,
         value |-> IF Len(valid_lags) < 3 THEN FloatNaN
                   ELSE HalfLogSlope(valid_lags, valid_tau)]

CalculateHurstExponent ==
    /\ pc = "calculate_hurst_exponent"
    /\ hurst' = HurstExponent(spread)
    /\ pc' = "hurst"
    /\ UNCHANGED <<price_matrix, min_correlation, min_common_days, scan, pairs,
                   pair_k, cointegrated_pairs, tested, RunTail, spread>>
    /\ ScreenFrame

\* the spreads: a constant one, a trending one, and one that jumps at the
\* powers of two, up and back
Spike(k) == IF k \in {1, 2, 4, 8, 16, 32, 64} THEN 1 ELSE 0
Spreads ==
    UNION {{[k \in 1..n |-> 0], [k \in 1..n |-> k], [k \in 1..n |-> Spike(k)]} :
              n \in 0..HBars}

InitHurst ==
    /\ IdleBacktests
    /\ NoFeed
    /\ price_matrix = <<>>
    /\ min_correlation = <<>>
    /\ min_common_days = 0
    /\ scan = 0
    /\ pairs = <<>>
    /\ pair_k = 0
    /\ cointegrated_pairs = <<>>
    /\ tested = <<>>
    /\ pairs_df = <<>>
    /\ summary = <<>>
    /\ spread \in Spreads
    /\ hurst = <<>>
    /\ pc = "calculate_hurst_exponent"

SpecHurst == InitHurst /\ [][CalculateHurstExponent]_vars

----------------------------------------------------------------------------
(* The ledger *)

ExitKeys == {"exit_date", "exit_z", "duration_days"}
IsOpen(t) == ExitKeys \cap (DOMAIN t) = {}
IsClosed(t) == ExitKeys \subseteq (DOMAIN t)
SideOf(t) == IF t["action"] = "BUY_SPREAD" THEN LONG_SPREAD ELSE SHORT_SPREAD
OpenTrades == {k \in 1..Len(trades) : IsOpen(trades[k])}
AllClosed == \A k \in 1..Len(trades) : IsClosed(trades[k])
\* the step appends one trade of the given side, entered at the current bar
Opens(side) ==
    /\ Len(trades') = Len(trades) + 1
    /\ SubSeq(trades', 1, Len(trades)) = trades
    /\ SideOf(trades'[Len(trades')]) = side
    /\ trades'[Len(trades')]["entry_date"] = Index(i)
    /\ IsOpen(trades'[Len(trades')])
    /\ position' = side
\* the step finalizes the last trade at the date of bar k
Closes(k) ==
    /\ Len(trades') = Len(trades)
    /\ IsOpen(trades[Len(trades)])
    /\ IsClosed(trades'[Len(trades)])
    /\ trades'[Len(trades)]["exit_date"] = Index(k)
    /\ \A j \in 1..(Len(trades) - 1) : trades'[j] = trades[j]

----------------------------------------------------------------------------
\* the state of the pair as the ledger shows it: the side of the open trade
State ==
    IF OpenTrades = {} THEN FLAT ELSE SideOf(trades[Len(trades)])

(* C1: the position states of a run form a walk on {FLAT, LONG_SPREAD,     *)
(* SHORT_SPREAD} that starts FLAT, never passes from LONG_SPREAD to        *)
(* SHORT_SPREAD or back directly, enters a trade only from FLAT (between   *)
(* two entries there is an exit) and ends FLAT: when generate_signals      *)
(* returns no trade is open.  Until the end-of-data step the state is the  *)
(* value of the variable position.                                         *)
C1_StateWalk ==
    /\ State = FLAT
    /\ [](State \in {FLAT, LONG_SPREAD, SHORT_SPREAD})
    /\ [](pc # "done" => State = position)
    /\ [][State' # State => (State = FLAT \/ State' = FLAT)]_vars
    /\ [][Len(trades') > Len(trades) => (State = FLAT /\ State' # FLAT)]_vars
    /\ [](pc = "done" => State = FLAT)

C1_Witness ==
    /\ pc = "done"
    /\ Len(trades) = 2
    /\ SideOf(trades[1]) = LONG_SPREAD
    /\ SideOf(trades[2]) = SHORT_SPREAD

(* C3: at a bar with a defined z-score, a FLAT machine opens LONG_SPREAD   *)
(* iff z < -entry_threshold, opens SHORT_SPREAD iff z > +entry_threshold,  *)
(* and otherwise stays FLAT; no trade is opened before bar lookback_window *)
(* nor while a position is open.                                           *)
C3_EntryRule ==
    [][ /\ (InLoop /\ position = FLAT /\ ~IsNa(current_z)) =>
              /\ Opens(LONG_SPREAD) <=> ZLt(current_z, RNeg(entry_threshold))
              /\ Opens(SHORT_SPREAD) <=> ZGt(current_z, entry_threshold)
              /\ (position' = FLAT /\ trades' = trades) <=>
                     (/\ ~ZLt(current_z, RNeg(entry_threshold))
                      /\ ~ZGt(current_z, entry_threshold))
        /\ Len(trades') > Len(trades) =>
              (InLoop /\ position = FLAT /\ i >= lookback_window)
      ]_vars

C3_Witness ==
    /\ pc = "loop"
    /\ position = LONG_SPREAD
    /\ Len(trades) = 2
    /\ SideOf(trades[1]) = SHORT_SPREAD

(* C4: at a bar with a defined z-score, LONG_SPREAD returns to FLAT iff    *)
(* z > -exit_threshold and SHORT_SPREAD returns to FLAT iff                *)
(* z < +exit_threshold; a bar with an undefined z-score changes neither    *)
(* the state nor the ledger.                                               *)
C4_ExitRule ==
    [][ /\ (InLoop /\ position = LONG_SPREAD /\ ~IsNa(current_z)) =>
              /\ (position' = FLAT /\ Closes(i)) <=>
                     ZGt(current_z, RNeg(exit_threshold))
              /\ (position' = LONG_SPREAD /\ trades' = trades) <=>
                     ~ZGt(current_z, RNeg(exit_threshold))
        /\ (InLoop /\ position = SHORT_SPREAD /\ ~IsNa(current_z)) =>
              /\ (position' = FLAT /\ Closes(i)) <=>
                     ZLt(current_z, exit_threshold)
              /\ (position' = SHORT_SPREAD /\ trades' = trades) <=>
                     ~ZLt(current_z, exit_threshold)
        /\ (InLoop /\ IsNa(current_z)) =>
              (position' = position /\ trades' = trades /\ signals' = signals)
      ]_vars

C4_Witness ==
    /\ pc = "loop"
    /\ position = FLAT
    /\ Len(trades) = 1
    /\ SideOf(trades[1]) = SHORT_SPREAD
    /\ IsClosed(trades[1])
    /\ trades[1]["exit_date"] < IndexLast(z_score)

(* C5: when generate_signals returns every trade has exit_date, exit_z and *)
(* duration_days; a trade still open when the loop ends is closed by the   *)
(* end-of-data step with exit_date the date of the final bar, whatever the *)
(* z-score of that bar is.                                                 *)
C5_ForcedExit ==
    /\ [](pc = "done" => AllClosed)
    /\ [][(pc = "final" /\ OpenTrades # {}) =>
            (Closes(Len(z_score) - 1) /\ pc' = "done")]_vars

C5_Witness ==
    /\ pc = "done"
    /\ Len(trades) = 1
    /\ trades[1]["exit_date"] = IndexLast(z_score)
    /\ trades[1]["entry_date"] < IndexLast(z_score)
    /\ IsNa(trades[1]["exit_z"])

(* C6 as claimed: at every point of generate_signals at most one trade is  *)
(* open, it is the last one, and position is LONG or SHORT exactly when    *)
(* that open trade exists, with the matching side.                         *)
C6_PositionIffOpenTrade ==
    /\ Cardinality(OpenTrades) <= 1
    /\ OpenTrades \subseteq {Len(trades)}
    /\ position # FLAT <=> OpenTrades # {}
    /\ \A k \in OpenTrades : SideOf(trades[k]) = position

(* C6 amended: at most one trade is open, it is the last one and position  *)
(* carries its side; position is LONG or SHORT only while that trade is    *)
(* open, except after the end-of-data step, which closes the trade and     *)
(* leaves position as it was.                                              *)
C6_MutualExclusion ==
    /\ Cardinality(OpenTrades) <= 1
    /\ OpenTrades \subseteq {Len(trades)}
    /\ \A k \in OpenTrades : SideOf(trades[k]) = position
    /\ pc # "done" => (position # FLAT <=> OpenTrades # {})
    /\ pc = "done" => OpenTrades = {}
    /\ (pc = "done" /\ position # FLAT) =>
           (/\ trades # <<>>
            /\ SideOf(trades[Len(trades)]) = position
            /\ trades[Len(trades)]["exit_date"] = IndexLast(z_score))

C6_Witness ==
    /\ pc = "done"
    /\ position = SHORT_SPREAD
    /\ Len(trades) = 2
    /\ IsClosed(trades[2])

----------------------------------------------------------------------------
(* Trades finalized by calculate_returns *)

Finalized ==
    {k \in 1..Len(trades_with_metrics) :
        "return_pct" \in DOMAIN trades_with_metrics[k]}
IsSell(t) == t["action"] = "SELL_SPREAD"
IsBuy(t) == t["action"] = "BUY_SPREAD"
\* price1 + m * h * price2 and m * price1 + h * price2, written out
FullPlusMargin(full, m, h, short) == RAdd(full, RMul(m, RMul(h, short)))
MarginPlusHedged(m, short, h, long) == RAdd(RMul(m, short), RMul(h, long))
\* the return_pct the trade gets in the same backtest run with margin m
ReturnUnderMargin(m, t) ==
    ReturnPct(t["pnl"], CapitalWith(m, hedge_ratio, t["action"],
                                    t["price1_entry"], t["price2_entry"]))
DoubledMargin == RMul(RInt(2), margin_requirement)

(* C7 as claimed: every finalized trade has capital_required > 0 and       *)
(* return_pct = pnl / capital_required exactly.                            *)
C7_ReturnIsPnlOverCapital ==
    \A k \in Finalized :
        LET t == trades_with_metrics[k] IN
        /\ RPos(t["capital_required"])
        /\ REq(RMul(t["return_pct"], t["capital_required"]), t["pnl"])

(* C7 amended: return_pct is the percentage 100 * pnl / capital_required   *)
(* exactly whenever capital_required > 0 and is 0 otherwise;               *)
(* capital_required > 0 whenever the entry prices, the hedge ratio and the *)
(* margin requirement are all positive.                                    *)
C7_ReturnPct ==
    \A k \in Finalized :
        LET t == trades_with_metrics[k]
            c == t["capital_required"]
        IN  /\ (/\ RPos(hedge_ratio) /\ RPos(margin_requirement)
                /\ RPos(t["price1_entry"]) /\ RPos(t["price2_entry"])) => RPos(c)
            /\ RPos(c) =>
                  REq(RMul(t["return_pct"], c), RMul(RInt(100), t["pnl"]))
            /\ ~RPos(c) => RZero(t["return_pct"])

C7_Witness ==
    \E j, k \in Finalized :
        /\ RPos(trades_with_metrics[j]["capital_required"])
        /\ ~RZero(trades_with_metrics[j]["pnl"])
        /\ ~RPos(trades_with_metrics[k]["capital_required"])

(* C8 as claimed: capital_required is the full entry price of the leg      *)
(* bought plus margin * hedge ratio * entry price of the leg sold short,   *)
(* on both sides (short leg: instrument 2 for LONG_SPREAD, instrument 1    *)
(* for SHORT_SPREAD).                                                      *)
C8_MarginHedgeOnShortLeg ==
    \A k \in Finalized :
        LET t == trades_with_metrics[k] IN
        REq(t["capital_required"],
            IF IsBuy(t)
            THEN FullPlusMargin(t["price1_entry"], margin_requirement,
                                hedge_ratio, t["price2_entry"])
            ELSE FullPlusMargin(t["price2_entry"], margin_requirement,
                                hedge_ratio, t["price1_entry"]))

(* C8 amended: for LONG_SPREAD capital_required = price1 + margin * hedge  *)
(* ratio * price2; for SHORT_SPREAD capital_required = margin * price1 +   *)
(* hedge ratio * price2 (entry prices): the hedge ratio always scales      *)
(* instrument 2, the margin applies to the leg sold short.                 *)
C8_CapitalAtEntry ==
    \A k \in Finalized :
        LET t == trades_with_metrics[k] IN
        REq(t["capital_required"],
            IF IsBuy(t)
            THEN FullPlusMargin(t["price1_entry"], margin_requirement,
                                hedge_ratio, t["price2_entry"])
            ELSE MarginPlusHedged(margin_requirement, t["price1_entry"],
                                  hedge_ratio, t["price2_entry"]))

C8_Witness ==
    \E k \in Finalized :
        LET t == trades_with_metrics[k] IN
        /\ IsSell(t)
        /\ t["price1_entry"] # t["price2_entry"]
        /\ ~REq(t["capital_required"],
                FullPlusMargin(t["price2_entry"], margin_requirement,
                               hedge_ratio, t["price1_entry"]))

(* C9: for a LONG_SPREAD trade pnl = (price1_exit - price1_entry) -        *)
(* hedge_ratio * (price2_exit - price2_entry); for a SHORT_SPREAD trade    *)
(* over the same prices pnl is exactly the negation of that value.         *)
C9_PnlOnExit ==
    \A k \in Finalized :
        LET t == trades_with_metrics[k]
            long == RSub(RSub(t["price1_exit"], t["price1_entry"]),
                         RMul(hedge_ratio,
                              RSub(t["price2_exit"], t["price2_entry"])))
        IN  /\ IsBuy(t) => REq(t["pnl"], long)
            /\ IsSell(t) => REq(t["pnl"], RNeg(long))
            /\ REq(Pnl("SELL_SPREAD", t["price1_entry"], t["price2_entry"],
                       t["price1_exit"], t["price2_exit"]),
                   RNeg(Pnl("BUY_SPREAD", t["price1_entry"], t["price2_entry"],
                            t["price1_exit"], t["price2_exit"])))

C9_Witness ==
    \E k \in Finalized :
        LET t == trades_with_metrics[k] IN
        /\ IsSell(t)
        /\ t["price2_exit"] # t["price2_entry"]
        /\ t["price1_exit"] # t["price1_entry"]
        /\ RPos(t["pnl"])

(* C10 as claimed: for every SHORT_SPREAD trade with a nonzero leg-2 entry *)
(* price, the same backtest with margin_requirement doubled gives a        *)
(* strictly smaller return_pct.                                            *)
C10_DoubledMarginLowersReturn ==
    \A k \in Finalized :
        LET t == trades_with_metrics[k] IN
        (IsSell(t) /\ ~RZero(t["price2_entry"])) =>
            RLt(ReturnUnderMargin(DoubledMargin, t), t["return_pct"])

(* C10 amended: for every SHORT_SPREAD trade with capital_required > 0 (and*)
(* positive margin and leg-1 entry price), doubling margin_requirement     *)
(* strictly decreases return_pct when pnl > 0, strictly increases it when  *)
(* pnl < 0 and leaves it at 0 when pnl = 0; the ledger of trades and their *)
(* pnl are the same in both runs.                                          *)
C10_MarginSensitivity ==
    \A k \in Finalized :
        LET t == trades_with_metrics[k]
            r == t["return_pct"]
            r2 == ReturnUnderMargin(DoubledMargin, t)
        IN  /\ REq(r, ReturnUnderMargin(margin_requirement, t))
            /\ (/\ IsSell(t) /\ RPos(t["capital_required"])
                /\ RPos(margin_requirement) /\ RPos(t["price1_entry"])) =>
                  /\ RPos(t["pnl"]) => RLt(r2, r)
                  /\ RPos(RNeg(t["pnl"])) => RLt(r, r2)
                  /\ RZero(t["pnl"]) => (RZero(r) /\ RZero(r2))

C10_Witness ==
    \E k \in Finalized :
        LET t == trades_with_metrics[k] IN
        /\ IsSell(t)
        /\ RPos(t["capital_required"])
        /\ RPos(RNeg(t["pnl"]))
        /\ RLt(t["return_pct"], ReturnUnderMargin(DoubledMargin, t))

----------------------------------------------------------------------------
(* Histories that agree with (df1, df2) on bars 0..t and are arbitrary after *)

Continuations(df, t) ==
    {[k \in 1..Len(df) |-> IF k <= t + 1 THEN df[k] ELSE sfx[k]] :
        sfx \in [(t + 2)..Len(df) -> Prices]}

(* C2: for any two price histories that agree on every bar up to and       *)
(* including bar t, calculate_spread gives the same z-score at t (and at   *)
(* every earlier bar) and generate_signals holds the same position after   *)
(* processing bar t: here t is the bar the loop has just processed.        *)
C2_Causality ==
    (pc = "loop" /\ i <= Len(z_score)) =>
        LET t == i - 1 IN
        \A a1 \in Continuations(df1, t) : \A a2 \in Continuations(df2, t) :
            /\ \A u \in 0..t : ZEq(ZScoreAt(a1, a2, u), Iloc(z_score, u))
            /\ PositionAfter(ZSeries(a1, a2), t) = position

C2_Witness ==
    /\ pc = "loop" /\ i < Len(z_score)
    /\ position # FLAT
    /\ \E a1 \in Continuations(df1, i - 1) :
          /\ a1 # df1
          /\ ~ZEq(ZScoreAt(a1, df2, i), Iloc(z_score, i))
          /\ PositionAfter(ZSeries(a1, df2), i) # PositionAfter(z_score, i)

----------------------------------------------------------------------------
(* Either backtester runs *)

InitBacktesters == InitAnyHedge \/ InitSupertrend
NextBacktesters == NextReturns \/ NextSupertrend
SpecBacktesters == InitBacktesters /\ [][NextBacktesters]_vars

(* The aggregate figures of a finished backtest *)

Reported == pc = "finished"
\* the ledger totals, summed from the finalized trades
TotalPnl == ColumnSum(trades_with_metrics, "pnl")
TotalCapital == ColumnSum(trades_with_metrics, "capital_required")

(* C11 as claimed: the ROI printed by calculate_returns, the ROI written   *)
(* by save_results and the ROI returned by run_backtest are the same value *)
(* for every ledger, and that value is the sum of pnl over the sum of      *)
(* capital_required of the ledger (as a percentage).                       *)
C11_RoiAgrees ==
    Reported =>
        /\ FloatSame(stats["roi"], report["roi"])
        /\ FloatSame(report["roi"], results["roi"])
        /\ ~RZero(TotalCapital) =>
              FloatSame(stats["roi"],
                        RMul(RDiv(TotalPnl, TotalCapital), RInt(100)))

(* C12 as claimed: a metric whose denominator is zero is reported as 0 or  *)
(* as an infinity, never as NaN, wherever it is computed: return_pct of a  *)
(* trade with capital_required = 0, the Sharpe ratio of returns with zero  *)
(* standard deviation, and the ROI of a ledger with zero total capital in  *)
(* calculate_returns, save_results and run_backtest.                       *)
ZeroOrInf(x) == IsInf(x) \/ (IsFinite(x) /\ RZero(x))

C12_ZeroDenominator ==
    /\ \A k \in Finalized :
          RZero(trades_with_metrics[k]["capital_required"]) =>
              ZeroOrInf(trades_with_metrics[k]["return_pct"])
    /\ (stats # <<>> /\ FloatSame(Variance(strategy_returns), RInt(0))) =>
          (DOMAIN stats["sharpe_ratio"] = {"n", "d"} /\ RZero(stats["sharpe_ratio"]))
    /\ (stats # <<>> /\ RZero(TotalCapital)) =>
          /\ "roi" \in DOMAIN stats => ZeroOrInf(stats["roi"])
          /\ "roi" \in DOMAIN report => ZeroOrInf(report["roi"])
          /\ "roi" \in DOMAIN results => ZeroOrInf(results["roi"])

(* C13: at every bar the drawdown (cumulative - running maximum) / running *)
(* maximum is at most 0, it is 0 at every bar whose cumulative value is a  *)
(* new maximum, and the reported max_drawdown is 100 times the smallest of *)
(* the per-bar drawdowns, so it is never positive.                         *)
IsByBarMinimum(x, s) ==
    /\ \A k \in 1..Len(s) : ~FloatLt(s[k], x)
    /\ \E k \in 1..Len(s) : FloatSame(s[k], x)

NewMaximum(s, k) == \A j \in 1..k : ~FloatLt(s[k], s[j])

DrawdownWithin(cumulative, drawdown, max_drawdown) ==
    /\ \A k \in 1..Len(cumulative) :
          /\ IsFinite(drawdown[k])
          /\ ~RPos(drawdown[k])
          /\ NewMaximum(cumulative, k) => RZero(drawdown[k])
    /\ IsFinite(max_drawdown)
    /\ ~RPos(max_drawdown)
    /\ IsByBarMinimum(FloatDiv(max_drawdown, RInt(100)), drawdown)

C13_Drawdown ==
    /\ stats # <<>> =>
          DrawdownWithin(stats["cumulative"], stats["drawdown"], stats["max_drawdown"])
    /\ "max_drawdown_pct" \in DOMAIN metrics =>
          DrawdownWithin(Equities(backtester.equity_curve),
                         Drawdown(Equities(backtester.equity_curve)),
                         metrics["max_drawdown_pct"])

\* a run that falls below its maximum and later sets a new one
C13_Witness ==
    /\ stats # <<>>
    /\ RPos(RNeg(stats["max_drawdown"]))
    /\ \E k \in 2..Len(stats["cumulative"]) :
          /\ NewMaximum(stats["cumulative"], k)
          /\ FloatLt(stats["cumulative"][k - 1], stats["cumulative"][k])
          /\ \E j \in 1..(k - 1) : RPos(RNeg(stats["drawdown"][j]))

----------------------------------------------------------------------------
(* The price matrix *)

MatrixBuilt == price_matrix # <<>>

Dates(matrix) == [k \in 1..Len(matrix.rows) |-> matrix.rows[k].date]

StrictlyAscending(s) == \A k \in 1..(Len(s) - 1) : s[k] < s[k + 1]

(* C14: the date index of the matrix create_price_matrix returns is        *)
(* strictly ascending, so no date occurs twice, whatever the series are,   *)
(* a series with a repeated date included; the columns are the tickers of  *)
(* historical_data in insertion order.                                     *)
C14_DateIndex ==
    MatrixBuilt =>
        /\ StrictlyAscending(Dates(price_matrix))
        /\ price_matrix.columns = Keys(historical_data)

\* the rows of the matrix before dropna, computed date by date: one row per
\* date of some history, each cell the close of that date or NA
CloseOn(df, date) ==
    IF \E k \in 1..Len(df) : df[k].date = date
    THEN df[CHOOSE k \in 1..Len(df) : df[k].date = date].close
    ELSE NA

ValueOf(d, key) == d[CHOOSE k \in 1..Len(d) : d[k].key = key].value

FullRow(d, date) ==
    [date |-> date, cells |-> [t \in Range(Keys(d)) |-> CloseOn(ValueOf(d, t), date)]]

AllDates(d) ==
    UNION {{d[k].value[j].date : j \in 1..Len(d[k].value)} : k \in 1..Len(d)}

AtLeast70Percent(row, n_columns) == 100 * Present(row) >= 70 * n_columns

----------------------------------------------------------------------------
(* The run of the fetcher *)

RunEnded == pc \in {"no_data", "no_matrix", "key_error", "files_saved"}

TooSmall(matrix) == Len(matrix.columns) < 2 \/ Len(matrix.rows) < MinCommonDays

SomePairVaries(matrix) ==
    \E a, b \in 1..Len(matrix.columns) :
        /\ a < b
        /\ \E r1, r2 \in 1..Len(matrix.rows) :
              LET t1 == matrix.columns[a]
                  t2 == matrix.columns[b]
                  row1 == matrix.rows[r1].cells
                  row2 == matrix.rows[r2].cells
              IN  /\ \A t \in {t1, t2} : row1[t] # NA /\ row2[t] # NA
                  /\ \E r3 \in 1..Len(matrix.rows) :
                        /\ matrix.rows[r3].cells[t1] # NA
                        /\ matrix.rows[r3].cells[t2] # NA
                        /\ row1[t1] # matrix.rows[r3].cells[t1]
                  /\ row1[t2] # row2[t2]

FetchFails(ticker) ==
    \/ api[ticker].raises
    \/ api[ticker].candles = <<>>
    \/ Len(api[ticker].candles) < MinDays

(* C17: in fetch_all_historical_data a fetch that raises, returns no data  *)
(* or returns fewer than min_days rows counts the instrument as failed and *)
(* leaves it out of historical_data and metadata, the loop goes on with    *)
(* the next instrument, and successful + failed is the number of           *)
(* instruments visited: all of them when the loop ends.                    *)
C17_PartialResults ==
    /\ successful + failed = row_i
    /\ pc # "fetch" => row_i = Len(instruments_df)
    /\ successful = Len(historical_data)
    /\ successful = Len(metadata)
    /\ \A k \in 1..Len(instruments_df) :
          LET ticker == instruments_df[k]
              stored == ticker \in Range(Keys(historical_data))
              described == \E j \in 1..Len(metadata) : metadata[j].ticker = ticker
          IN  /\ stored <=> (k <= row_i /\ ~FetchFails(ticker))
              /\ described <=> stored
    /\ failed = Cardinality({k \in 1..row_i : FetchFails(instruments_df[k])})

\* the loop has ended after a fetch that raised and a later one that loaded
C17_Witness ==
    /\ pc = "fetched"
    /\ Len(instruments_df) >= 2
    /\ api[instruments_df[1]].raises
    /\ ~FetchFails(instruments_df[2])
    /\ failed >= 1 /\ successful >= 1

----------------------------------------------------------------------------
(* Screening *)

\* the rows of the matrix in which both columns have a price
BothPriced(t1, t2) ==
    {r \in 1..Len(price_matrix.rows) :
        price_matrix.rows[r].cells[t1] # NA /\ price_matrix.rows[r].cells[t2] # NA}

\* sum over the pairs of rows a < b of S of (u[a] - u[b]) * (v[a] - v[b]):
\* n times the co-moment of u and v over S
CoMoment(S, u, v) ==
    SumOver({ab \in S \X S : ab[1] < ab[2]},
            [ab \in S \X S |-> (u[ab[1]] - u[ab[2]]) * (v[ab[1]] - v[ab[2]])])

\* |Pearson correlation of the two columns over the rows S| >= c, the
\* correlation being defined: r^2 = Cxy^2 / (Cxx * Cyy)
CorrelatedOver(S, t1, t2, c) ==
    LET u == [r \in S |-> price_matrix.rows[r].cells[t1]]
        v == [r \in S |-> price_matrix.rows[r].cells[t2]]
        Cxy == CoMoment(S, u, v)
        Cxx == CoMoment(S, u, u)
        Cyy == CoMoment(S, v, v)
    IN  /\ Cxx > 0 /\ Cyy > 0
        /\ Cxy * Cxy * c.d * c.d >= c.n * c.n * Cxx * Cyy

UndefinedOver(S, t1, t2) ==
    LET u == [r \in S |-> price_matrix.rows[r].cells[t1]]
        v == [r \in S |-> price_matrix.rows[r].cells[t2]]
    IN  CoMoment(S, u, u) = 0 \/ CoMoment(S, v, v) = 0

Qualifies(t1, t2) ==
    /\ Cardinality(BothPriced(t1, t2)) >= min_common_days
    /\ CorrelatedOver(BothPriced(t1, t2), t1, t2, min_correlation)

InScan == pc \in {"find_strong_pairs", "stage1"}
\* the scan has ended and its list is handed on
ScanDone == pc = "strong_pairs" \/ (pc = "stage2" /\ pair_k = 0)
Screening == InScan \/ ScanDone

\* the column pairs i < j, as sets of two tickers
ColumnPairs ==
    {{price_matrix.columns[a], price_matrix.columns[b]} :
        a, b \in 1..Len(price_matrix.columns)} \ {{t} : t \in Range(price_matrix.columns)}

\* the position of a pair of the list in the order of the two loops
ScanPos(pair) ==
    CHOOSE k \in 1..Len(ScanOrder(Len(price_matrix.columns))) :
        /\ price_matrix.columns[ScanOrder(Len(price_matrix.columns))[k][1]] = pair.ticker1
        /\ price_matrix.columns[ScanOrder(Len(price_matrix.columns))[k][2]] = pair.ticker2

Emitted == {{pairs[k].ticker1, pairs[k].ticker2} : k \in 1..Len(pairs)}

(* C18: both screeners emit an unordered pair of columns if and only if    *)
(* the two have a price on at least min_common_days common dates and the   *)
(* absolute Pearson correlation over exactly those dates is defined and at *)
(* least min_correlation; no pair is emitted twice; a pair with too few    *)
(* common days or an undefined correlation is skipped and the scan goes on *)
(* to the last pair.                                                       *)
C18_ScreeningRule ==
    Screening =>
        /\ \A k \in 1..Len(pairs) : pairs[k].ticker1 # pairs[k].ticker2
        /\ Cardinality(Emitted) = Len(pairs)
        /\ ScanDone => scan = Cardinality(ColumnPairs)
        /\ \A a, b \in 1..Len(price_matrix.columns) :
              a < b =>
                LET t1 == price_matrix.columns[a]
                    t2 == price_matrix.columns[b]
                    visited == ScanPos([ticker1 |-> t1, ticker2 |-> t2]) <= scan
                IN  {t1, t2} \in Emitted <=> (visited /\ Qualifies(t1, t2))

\* a finished scan that skipped a pair with too few common days and a pair
\* without a correlation, and emitted a pair after each of them
C18_Witness ==
    /\ ScanDone
    /\ \E k \in 1..Len(pairs) :
          \E a, b \in 1..Len(price_matrix.columns) :
              /\ a < b
              /\ ScanPos([ticker1 |-> price_matrix.columns[a],
                          ticker2 |-> price_matrix.columns[b]]) < ScanPos(pairs[k])
              /\ Cardinality(BothPriced(price_matrix.columns[a], price_matrix.columns[b]))
                    < min_common_days
    /\ \E k \in 1..Len(pairs) :
          \E a, b \in 1..Len(price_matrix.columns) :
              /\ a < b
              /\ ScanPos([ticker1 |-> price_matrix.columns[a],
                          ticker2 |-> price_matrix.columns[b]]) < ScanPos(pairs[k])
              /\ UndefinedOver(BothPriced(price_matrix.columns[a], price_matrix.columns[b]),
                               price_matrix.columns[a], price_matrix.columns[b])

\* the tickers in lexical order
Lexical == <<"ALRS", "GAZP", "LKOH", "MOEX", "SBER", "TGKJ">>
LexicalRank(ticker) == CHOOSE k \in 1..Len(Lexical) : Lexical[k] = ticker

SameAbs(x, y) == ~AbsLt(x.correlation, y.correlation) /\ ~AbsLt(y.correlation, x.correlation)

\* x goes before y: larger |correlation|, then more common days, then the
\* lexically smaller tickers
ClaimedBefore(x, y) ==
    \/ AbsLt(y.correlation, x.correlation)
    \/ /\ SameAbs(x, y)
       /\ \/ x.common_days > y.common_days
          \/ /\ x.common_days = y.common_days
             /\ \/ LexicalRank(x.ticker1) < LexicalRank(y.ticker1)
                \/ /\ x.ticker1 = y.ticker1
                   /\ LexicalRank(x.ticker2) < LexicalRank(y.ticker2)

\* x is visited before y by the two loops
ColumnOf(ticker) ==
    CHOOSE a \in 1..Len(price_matrix.columns) : price_matrix.columns[a] = ticker
ScannedBefore(x, y) ==
    \/ ColumnOf(x.ticker1) < ColumnOf(y.ticker1)
    \/ x.ticker1 = y.ticker1 /\ ColumnOf(x.ticker2) < ColumnOf(y.ticker2)

\* find_strong_pairs has returned; stage 1 of find_all_pairs has ended
CandidatesReturned == pc = "strong_pairs" \/ (pc = "stage2" /\ pair_k = 0)

(* C19 as claimed: the list of candidate pairs a screener returns is       *)
(* sorted descending by absolute correlation, ties broken by the larger    *)
(* common_days and then by lexical ticker order.                           *)
C19_ClaimedOrder ==
    CandidatesReturned =>
        \A k \in 1..(Len(pairs) - 1) : ClaimedBefore(pairs[k], pairs[k + 1])

(* C19 amended: find_strong_pairs returns its list sorted descending by    *)
(* absolute correlation, pairs of equal absolute correlation staying in    *)
(* the order of the scan, which is the order of the matrix columns;        *)
(* stage 1 of find_all_pairs does not sort: its candidates are in the      *)
(* order of the scan.                                                      *)
C19_ScanOrder ==
    /\ pc = "strong_pairs" =>
          \A x, y \in 1..Len(pairs) :
              x < y =>
                /\ ~AbsLt(pairs[x].correlation, pairs[y].correlation)
                /\ SameAbs(pairs[x], pairs[y]) => ScannedBefore(pairs[x], pairs[y])
    /\ (pc = "stage2" /\ pair_k = 0) =>
          \A x, y \in 1..Len(pairs) : x < y => ScannedBefore(pairs[x], pairs[y])

\* find_strong_pairs has moved a pair forward, and of two pairs of equal
\* absolute correlation the one with fewer common days comes first
C19_Witness ==
    /\ pc = "strong_pairs"
    /\ \E x, y \in 1..Len(pairs) : x < y /\ ScannedBefore(pairs[y], pairs[x])
    /\ \E x, y \in 1..Len(pairs) :
          /\ x < y
          /\ SameAbs(pairs[x], pairs[y])
          /\ pairs[x].common_days < pairs[y].common_days

StageTwo == pc \in {"stage2", "cointegrated_pairs"}

\* p < 0.05 for a p-value that is a number
Under5Percent(p) == DOMAIN p = {"n", "d"} /\ p.d > 0 /\ 20 * p.n < p.d

(* C20: every pair in the list find_all_pairs builds and returns has a     *)
(* cointegration p-value and an ADF p-value strictly below the thresholds  *)
(* (0.05), a defined hedge ratio, and is a candidate that passed the       *)
(* common-days and correlation screen; a tested pair is appended exactly   *)
(* when both p-values are below the thresholds.                            *)
C20_Gates ==
    StageTwo =>
        /\ \A k \in 1..Len(cointegrated_pairs) :
              LET c == cointegrated_pairs[k]
              IN  /\ Under5Percent(c.coint_pvalue)
                  /\ Under5Percent(c.adf_pvalue)
                  /\ c.hedge_ratio.d > 0
                  /\ \E j \in 1..pair_k :
                        /\ pairs[j].ticker1 = c.ticker1
                        /\ pairs[j].ticker2 = c.ticker2
                  /\ Qualifies(c.ticker1, c.ticker2)
        /\ pair_k > 0 =>
              LET appended ==
                     /\ cointegrated_pairs # <<>>
                     /\ cointegrated_pairs[Len(cointegrated_pairs)].ticker1 = tested.ticker1
                     /\ cointegrated_pairs[Len(cointegrated_pairs)].ticker2 = tested.ticker2
              IN  appended <=> (/\ Under5Percent(tested.coint_pvalue)
                                /\ Under5Percent(tested.adf_pvalue))

\* find_all_pairs returns a pair and has dropped one whose ADF p-value is
\* the threshold itself
C20_Witness ==
    /\ pc = "cointegrated_pairs"
    /\ cointegrated_pairs # <<>>
    /\ Len(pairs) > Len(cointegrated_pairs)
    /\ tested.adf_pvalue = Rat(1, 20)

----------------------------------------------------------------------------
(* The run of the finder *)

FinderOver == pc \in {"raised", "not_found", "summary"}

PairOf(row) == <<row.ticker1, row.ticker2>>
PairsOf(rows) == [k \in 1..Len(rows) |-> PairOf(rows[k])]

(* C21: a failure in the tests of one candidate pair, an exception         *)
(* included, skips that pair alone: when the run is over every candidate   *)
(* has been evaluated and the pairs that passed are returned and saved.    *)
C21_LocalFailures ==
    FinderOver =>
        /\ pair_k = Len(pairs)
        /\ pc # "raised"
        /\ cointegrated_pairs # <<>> =>
              Range(PairsOf(pairs_df)) = Range(PairsOf(cointegrated_pairs))

\* the counters the summary would carry
SkipCounters == {"skipped_overlap", "skipped_degenerate",
                 "dropped_cointegration", "dropped_stationarity"}

Examined == (Len(price_matrix.columns) * (Len(price_matrix.columns) - 1)) \div 2

(* C22: when a run of the finder ends, its summary carries the counts of   *)
(* the pairs skipped for overlap, skipped as degenerate and dropped at     *)
(* each gate, and with the accepted pairs they add up to the number of     *)
(* column pairs examined.                                                  *)
C22_SkipAccounting ==
    pc \in {"not_found", "summary"} =>
        /\ SkipCounters \subseteq DOMAIN summary
        /\ summary["skipped_overlap"] + summary["skipped_degenerate"]
              + summary["dropped_cointegration"] + summary["dropped_stationarity"]
              + Len(cointegrated_pairs) = Examined

Saved == pc \in {"results_saved", "summary"}

\* the product the score divides by
PValueProduct(row) == RMul(row.coint_pvalue, row.adf_pvalue)

(* C23: the rows save_results writes are the accepted pairs, each once,    *)
(* and they are in descending order of 1 / (coint p-value x ADF p-value):  *)
(* of two consecutive rows the later has the larger or equal product.      *)
C23_Ranking ==
    Saved =>
        /\ Len(pairs_df) = Len(cointegrated_pairs)
        /\ Range(PairsOf(pairs_df)) = Range(PairsOf(cointegrated_pairs))
        /\ \A k \in 1..(Len(pairs_df) - 1) :
              ~RLt(PValueProduct(pairs_df[k + 1]), PValueProduct(pairs_df[k]))

\* the sort moved a pair: the first row written is not the first pair
\* accepted, and its score is infinite (an ADF p-value of zero)
C23_Witness ==
    /\ pc = "results_saved"
    /\ Len(pairs_df) >= 3
    /\ PairOf(pairs_df[1]) # PairOf(cointegrated_pairs[1])
    /\ IsInf(pairs_df[1].quality_score)
    /\ RLt(PValueProduct(pairs_df[2]), PValueProduct(pairs_df[3]))

(* C29: the pairs print_summary lists as the top three are the first three *)
(* rows of the ranked file save_results wrote in the same run.             *)
C29_TopThree ==
    pc = "summary" =>
        PairsOf(summary.top) = PairsOf(FirstRows(pairs_df, 3))

----------------------------------------------------------------------------
(* Pair independence *)

InFindAllPairs == pc \in {"stage1", "stage2", "cointegrated_pairs", "raised"}

\* the correlation of a record is the Pearson correlation of its two
\* columns over the rows in which both have a price, as a signed square
OwnCorrelation(rec) ==
    LET S == BothPriced(rec.ticker1, rec.ticker2)
        u == [r \in S |-> price_matrix.rows[r].cells[rec.ticker1]]
        v == [r \in S |-> price_matrix.rows[r].cells[rec.ticker2]]
        Cxy == CoMoment(S, u, v)
        Cxx == CoMoment(S, u, u)
        Cyy == CoMoment(S, v, v)
    IN  /\ rec.common_days = Cardinality(S)
        /\ rec.correlation.den > 0
        /\ rec.correlation.num * Cxx * Cyy = Sgn(Cxy) * Cxy * Cxy * rec.correlation.den

\* the hedge ratio of a record is the slope of its first column on its second
OwnHedgeRatio(rec) ==
    LET S == BothPriced(rec.ticker1, rec.ticker2)
        u == [r \in S |-> price_matrix.rows[r].cells[rec.ticker1]]
        v == [r \in S |-> price_matrix.rows[r].cells[rec.ticker2]]
    IN  rec.hedge_ratio.n * CoMoment(S, v, v) = CoMoment(S, u, v) * rec.hedge_ratio.d

\* a step of find_all_pairs keeps the records it has and, when it appends
\* one, appends a record computed from the two columns of its pair
AppendsOwnColumns ==
    InFindAllPairs =>
        /\ SubSeq(pairs', 1, Len(pairs)) = pairs
        /\ SubSeq(cointegrated_pairs', 1, Len(cointegrated_pairs)) = cointegrated_pairs
        /\ \A k \in (Len(pairs) + 1)..Len(pairs') : OwnCorrelation(pairs'[k])
        /\ \A k \in (Len(cointegrated_pairs) + 1)..Len(cointegrated_pairs') :
              /\ OwnCorrelation(cointegrated_pairs'[k])
              /\ OwnHedgeRatio(cointegrated_pairs'[k])

----------------------------------------------------------------------------
(* The persistence exponent *)

\* the lags 2, 3, ..., last
LagsUpTo(last) == [k \in 1..(IF last >= 2 THEN last - 1 ELSE 0) |-> k + 1]

(* C25: calculate_hurst_exponent regresses over exactly the lags 2, 3,     *)
(* ..., min(20, len/2), both ends included, and returns the slope of       *)
(* log(std) on log(lag) divided by 2.                                      *)
C25_Lags ==
    pc = "hurst" =>
        LET half == Len(spread) \div 2
            last == IF max_lag < half THEN max_lag ELSE half
        IN  /\ hurst.lags = LagsUpTo(last)
            /\ (Len(hurst.lags) >= 3 /\ ~IsNaN(hurst.value)) =>
                  /\ hurst.value.lags = LagsUpTo(last)
                  /\ hurst.value.divided_by = 2

----------------------------------------------------------------------------
(* The ledger over a run *)

(* C26: a trade is appended only by a step that leaves FLAT; the exit      *)
(* fields of a trade are written together, by a threshold exit or by the   *)
(* end-of-data step; a trade that has them is never changed again, and     *)
(* when generate_signals returns every trade has them.                     *)
C26_WriteOnce ==
    /\ [](pc = "done" => AllClosed)
    /\ [][/\ Len(trades') >= Len(trades)
          /\ Len(trades') > Len(trades) =>
                /\ Len(trades') = Len(trades) + 1
                /\ position = FLAT /\ position' # FLAT
                /\ IsOpen(trades'[Len(trades')])
          /\ \A k \in 1..Len(trades) :
                /\ IsClosed(trades[k]) => trades'[k] = trades[k]
                /\ trades'[k] # trades[k] =>
                      /\ IsOpen(trades[k]) /\ IsClosed(trades'[k])
                      /\ \/ pc = "final" /\ pc' = "done"
                         \/ pc = "loop" /\ position # FLAT /\ position' = FLAT]_vars

\* a trade was closed by its threshold, a later bar was processed and the
\* end-of-data step has run
C26_Witness ==
    /\ pc = "done"
    /\ Len(trades) = 1
    /\ position = FLAT
    /\ trades[1]["exit_date"] < IndexLast(z_score)

\* the trades that hold a position when the iteration of bar k of
\* generate_signals ends: entered by then and not exited by a threshold
HoldingAt(k) ==
    {t \in 1..Len(trades) :
        /\ trades[t]["entry_date"] <= Index(k)
        /\ \/ Index(k) < trades[t]["exit_date"]
           \/ t = Len(trades) /\ position # FLAT}

\* the position of the state machine of generate_signals at bar k
MachineAt(k) ==
    IF HoldingAt(k) = {} THEN FLAT
    ELSE SideOf(trades[CHOOSE t \in HoldingAt(k) : TRUE])

Replayed == pc \in {"returned", "saved", "finished"}

(* C27: at every bar the position calculate_returns rebuilds from the      *)
(* signals is the position the state machine of generate_signals held at   *)
(* that bar, whether the rebuilt position is read when the bar is credited *)
(* or when its iteration ends.                                             *)
C27_ReplayConsistency ==
    Replayed =>
        \/ \A k \in 0..(Len(signals) - 1) : HeldAt(signals, k) = MachineAt(k)
        \/ \A k \in 0..(Len(signals) - 1) : AfterBar(signals, k) = MachineAt(k)

(* C28 as claimed: every trade of the ledger generate_signals returns has  *)
(* its exit strictly later than its entry, duration_days > 0, the trade    *)
(* closed at the end of the data included, and the next trade is entered   *)
(* strictly later than the previous one is exited.                         *)
C28_StrictDuration ==
    pc = "done" =>
        /\ \A k \in 1..Len(trades) :
              /\ trades[k]["entry_date"] < trades[k]["exit_date"]
              /\ trades[k]["duration_days"] > 0
        /\ \A k \in 1..(Len(trades) - 1) :
              trades[k]["exit_date"] < trades[k + 1]["entry_date"]

(* C28 amended: no trade is exited before it is entered and duration_days  *)
(* is the days from entry to exit; the exit is strictly later except for a *)
(* last trade entered on the last bar, which the end-of-data step closes   *)
(* on that bar with duration_days = 0; the next trade is entered strictly  *)
(* later than the previous one is exited.                                  *)
C28_Durations ==
    pc = "done" =>
        /\ \A k \in 1..Len(trades) :
              /\ trades[k]["duration_days"] =
                    trades[k]["exit_date"] - trades[k]["entry_date"]
              /\ trades[k]["duration_days"] >= 0
              /\ trades[k]["duration_days"] = 0 =>
                    /\ k = Len(trades)
                    /\ position # FLAT
                    /\ trades[k]["entry_date"] = IndexLast(z_score)
        /\ \A k \in 1..(Len(trades) - 1) :
              trades[k]["exit_date"] < trades[k + 1]["entry_date"]

\* a trade is entered on the last bar, after another was closed
C28_Witness ==
    /\ pc = "done"
    /\ Len(trades) = 2
    /\ trades[2]["duration_days"] = 0
    /\ trades[1]["duration_days"] > 0

----------------------------------------------------------------------------
(* The capital of the SupertrendBacktester *)

\* a call left the capital, the position and the list of trades as they were
Kept ==
    /\ backtester'.capital = backtester.capital
    /\ backtester'.position = backtester.position
    /\ backtester'.trades = backtester.trades

(* C30: after any sequence of enter_position, close_position and           *)
(* update_equity_curve calls the capital is initial_capital plus the pnl   *)
(* of the trades recorded; only close_position changes it, by the pnl of   *)
(* the trade it records; an enter_position with capital for less than one  *)
(* lot and a close_position with no open position change neither the       *)
(* capital nor the position nor the trades.                                *)
C30_Capital ==
    /\ [](InCalls =>
            backtester.capital = initial_capital + SumPnl(backtester.trades))
    /\ [][InCalls =>
            /\ backtester'.capital # backtester.capital =>
                  /\ current_row'.call = "close_position"
                  /\ Len(backtester'.trades) = Len(backtester.trades) + 1
                  /\ backtester'.capital - backtester.capital =
                        backtester'.trades[Len(backtester'.trades)]["pnl"]
            /\ current_row'.call # "close_position" =>
                  backtester'.trades = backtester.trades
            /\ (/\ current_row'.call = "enter_position"
                /\ backtester.capital < lot_size * current_row'.price) => Kept
            /\ (/\ current_row'.call = "close_position"
                /\ backtester.position = 0) => Kept]_vars

\* a short trade lost the whole capital and was recorded, and the next entry
\* was refused: the capital buys no lot
C30_Witness ==
    /\ InCalls
    /\ current_row.call = "enter_position"
    /\ backtester.trades # <<>>
    /\ backtester.capital # initial_capital
    /\ backtester.capital < lot_size * current_row.price
    /\ backtester.position = 0

====
